---- MODULE Spec2Model ----
(***************************************************************************)
(* Model of the cheat-sheet pipeline of create_cheat_sheet.py and          *)
(* streamlit_app.py: name normalisation, export parsing, fuzzy resolution  *)
(* against the unit catalog and aggregation of reminders per phase.        *)
(*                                                                         *)
(* Text is modelled as a sequence of symbols.  A symbol is one character   *)
(* ("a", "'", " ") or one indivisible piece of text that the regular       *)
(* expressions of the source treat as a unit ("(5 points)", "Incursion",   *)
(* "Gladius Task Force").  A character outside ASCII is written by its    *)
(* code point: "U+2019" is the typographic apostrophe, "U+00C9" and        *)
(* "U+00E9" are the upper- and lower-case e with acute accent.             *)
(***************************************************************************)
EXTENDS Integers, Sequences, FiniteSets, TLC

\* ---------------------------------------------------------------------
\* Bounds
\* ---------------------------------------------------------------------
\* longest raw name handed to normalize_name
MaxLen == 3
\* most lines of an export
MaxLines == 3
\* longest key of the fuzzy resolver
MaxKeyLen == 2
\* most keys of the catalog the fuzzy resolver searches
MaxCatalog == 2
\* the greatest number of lines after the header of an export given to run
MaxBodyLines == 2
\* most lines of an export with section headers
MaxSectionLines == 4
\* most documents of a YAML directory
MaxDocs == 2
\* most stratagems of a stratagem list
MaxStratagems == 2
\* most pieces a unit name handed to norm is made of
MaxPieces == 3
\* most calls made against a loaded catalog
MaxCalls == 2

\* ---------------------------------------------------------------------
\* Generic helpers
\* ---------------------------------------------------------------------
None == <<>>
Some(v) == <<v>>

RECURSIVE SeqsUpTo(_, _)
SeqsUpTo(S, n) ==
  IF n = 0 THEN {<<>>}
  ELSE LET shorter == SeqsUpTo(S, n - 1)
       IN shorter \cup {Append(s, c) : s \in {t \in shorter : Len(t) = n - 1}, c \in S}

\* ---------------------------------------------------------------------
\* Symbols
\* ---------------------------------------------------------------------
LowerLetters == {"a", "b", "U+00E9"}
UpperLetters == {"A", "B", "U+00C9"}
Apostrophes == {"'", "U+2019"}
\* the characters Python's \s matches that occur in the model
Whitespace == {" ", "\t"}
PointsSuffixes == {"(5 points)", "(7 points)"}

\* str.lower() on one symbol
LowerSym(c) ==
  CASE c = "A" -> "a"
    [] c = "B" -> "b"
    [] c = "U+00C9" -> "U+00E9"
    [] c = "Incursion" -> "incursion"
    [] c = "Gladius Task Force" -> "gladius task force"
    [] c = "Space Marines" -> "space marines"
    [] c = "Ultramarines" -> "ultramarines"
    [] OTHER -> c

\* the symbols of the class [a-z0-9+&/ -]
AllowedSyms ==
  {"a", "b", "1", "+", "&", "/", " ", "-",
   "incursion", "gladius task force", "space marines", "ultramarines"}

\* ---------------------------------------------------------------------
\* normalize_name
\* ---------------------------------------------------------------------
\* variant: only the ASCII apostrophe is removed
IsNotAsciiApostrophe(c) == c # "'"

IsNotApostrophe(c) == c \notin Apostrophes

\* re.sub(r"[^a-z0-9+&/ -]", " ", s) on one symbol
BlankOther(c) == IF c \in AllowedSyms THEN c ELSE " "

\* re.sub(r"\s+", " ", s)
RECURSIVE CollapseWs(_)
CollapseWs(s) ==
  IF s = <<>> THEN <<>>
  ELSE IF Head(s) \in Whitespace
       THEN IF Len(s) > 1 /\ s[2] \in Whitespace
            THEN CollapseWs(Tail(s))
            ELSE <<" ">> \o CollapseWs(Tail(s))
       ELSE <<Head(s)>> \o CollapseWs(Tail(s))

RECURSIVE LStrip(_)
LStrip(s) == IF s # <<>> /\ Head(s) \in Whitespace THEN LStrip(Tail(s)) ELSE s

RECURSIVE RStrip(_)
RStrip(s) ==
  IF s # <<>> /\ s[Len(s)] \in Whitespace THEN RStrip(SubSeq(s, 1, Len(s) - 1)) ELSE s

\* str.strip()
Strip(s) == RStrip(LStrip(s))

\* variant: the apostrophes are removed after the trim instead of before
\* the other characters are blanked
KeepApostrophe(c) == IF c \in AllowedSyms \cup Apostrophes THEN c ELSE " "

normalize_name_apostrophes_last(s) ==
  LET lowered == [i \in 1..Len(s) |-> LowerSym(s[i])]
      blanked == [i \in 1..Len(lowered) |-> KeepApostrophe(lowered[i])]
  IN SelectSeq(Strip(CollapseWs(blanked)), IsNotApostrophe)

normalize_name(s) ==
  LET lowered == [i \in 1..Len(s) |-> LowerSym(s[i])]
      noApos == SelectSeq(lowered, IsNotApostrophe)
      blanked == [i \in 1..Len(noApos) |-> BlankOther(noApos[i])]
  IN Strip(CollapseWs(blanked))

\* ---------------------------------------------------------------------
\* streamlit_app.norm
\* ---------------------------------------------------------------------
\* here a text is a sequence of single characters
UpperAscii == <<"A", "B", "C", "D", "E", "F", "G", "H", "I", "J", "K", "L", "M",
                "N", "O", "P", "Q", "R", "S", "T", "U", "V", "W", "X", "Y", "Z">>
LowerAscii == <<"a", "b", "c", "d", "e", "f", "g", "h", "i", "j", "k", "l", "m",
                "n", "o", "p", "q", "r", "s", "t", "u", "v", "w", "x", "y", "z">>

\* s.lower() on one character
LowerChar(c) ==
  IF \E i \in 1..26 : UpperAscii[i] = c
  THEN LowerAscii[CHOOSE i \in 1..26 : UpperAscii[i] = c]
  ELSE c

\* the characters \s matches; the dot of a regular expression matches every
\* character but the line feed
SpaceChars == {" ", "\t", "\n"}

\* the first character at or after position i that is no white space, or
\* Len(s) + 1
SkipSpaces(s, i) ==
  LET stops == {j \in i..Len(s) : s[j] \notin SpaceChars}
  IN IF i > Len(s) THEN i
     ELSE IF stops = {} THEN Len(s) + 1
     ELSE CHOOSE j \in stops : \A k \in stops : j <= k

\* .*?\) after the parenthesis at p: the position of the first ")" after p
\* on the same line, or 0
ClosingParen(s, p) ==
  LET closing == {j \in p + 1..Len(s) :
                    /\ s[j] = ")"
                    /\ \A k \in p + 1..j - 1 : s[k] \notin {")", "\n"}}
  IN IF closing = {} THEN 0 ELSE CHOOSE j \in closing : TRUE

\* re.sub(r"\s*\(.*?\)", "", s): the matches are taken from the left and do
\* not overlap; a match begins at the first position from which white space
\* leads to a parenthesis that is closed on its line
RECURSIVE RemoveParens(_)
RemoveParens(s) ==
  LET starts == {i \in 1..Len(s) :
                   LET p == SkipSpaces(s, i)
                   IN p <= Len(s) /\ s[p] = "(" /\ ClosingParen(s, p) # 0}
  IN IF starts = {} THEN s
     ELSE LET i == CHOOSE j \in starts : \A k \in starts : j <= k
          IN SubSeq(s, 1, i - 1)
             \o RemoveParens(SubSeq(s, ClosingParen(s, SkipSpaces(s, i)) + 1, Len(s)))

\* s.replace(old, new): the occurrences are taken from the left and do not
\* overlap
RECURSIVE Replace(_, _, _)
Replace(s, old, new) ==
  LET starts == {i \in 1..Len(s) - Len(old) + 1 : SubSeq(s, i, i + Len(old) - 1) = old}
  IN IF starts = {} THEN s
     ELSE LET i == CHOOSE j \in starts : \A k \in starts : j <= k
          IN SubSeq(s, 1, i - 1) \o new
             \o Replace(SubSeq(s, i + Len(old), Len(s)), old, new)

\* re.sub(r"\s+", " ", s): each run of white space becomes one space
RECURSIVE CollapseSpaces(_)
CollapseSpaces(s) ==
  LET starts == {i \in 1..Len(s) : s[i] \in SpaceChars}
  IN IF starts = {} THEN s
     ELSE LET i == CHOOSE j \in starts : \A k \in starts : j <= k
          IN SubSeq(s, 1, i - 1) \o <<" ">>
             \o CollapseSpaces(SubSeq(s, SkipSpaces(s, i), Len(s)))

\* .strip()
RECURSIVE StripSpaces(_)
StripSpaces(s) ==
  IF s # <<>> /\ Head(s) \in SpaceChars THEN StripSpaces(Tail(s))
  ELSE IF s # <<>> /\ s[Len(s)] \in SpaceChars THEN StripSpaces(SubSeq(s, 1, Len(s) - 1))
  ELSE s

WithJumpPacks == <<"w", "i", "t", "h", " ", "j", "u", "m", "p", " ", "p", "a", "c", "k", "s">>
WJumpPacks == <<"w", "/", " ", "j", "u", "m", "p", " ", "p", "a", "c", "k", "s">>
WithJumpPack == <<"w", "i", "t", "h", " ", "j", "u", "m", "p", " ", "p", "a", "c", "k">>

norm(s) ==
  LET lowered == [i \in 1..Len(s) |-> LowerChar(s[i])]
      noParens == RemoveParens(lowered)
      folded == Replace(noParens, WithJumpPacks, WithJumpPack)
      folded2 == Replace(folded, WJumpPacks, WithJumpPack)
      noW == Replace(folded2, <<" ", "w", "/">>, <<" ">>)
  IN StripSpaces(CollapseSpaces(noW))

\* ---------------------------------------------------------------------
\* parse_export_txt
\* ---------------------------------------------------------------------
\* the lines[:30] window of the metadata scan
MetaScanLines == 30

AsciiUpper == {"A", "B"}
\* whole upper-case words
SectionWords == {"CHARACTERS", "BATTLELINE"}
\* the class [A-Z\s/’'–-] of SECTION_RE
SectionSyms == AsciiUpper \cup Whitespace \cup {"/", "U+2019", "'", "U+2013", "-"}
FormatNames == {"incursion"}
KnownNames ==
  {<<"Space Marines">>, <<"Ultramarines">>, <<"Gladius Task Force">>,
   <<"Anvil Siege Force">>}

HasParen(c) == c \in PointsSuffixes \cup {"("}
PointsOf(c) == IF c = "(5 points)" THEN 5 ELSE 7

\* index of the first symbol holding "(", 0 when there is none
FirstParen(s) ==
  IF \E i \in 1..Len(s) : HasParen(s[i])
  THEN CHOOSE i \in 1..Len(s) :
         HasParen(s[i]) /\ \A j \in 1..(i - 1) : ~HasParen(s[j])
  ELSE 0

\* re.sub(r"\s*\(.*$", "", first).strip() or first
TitleOf(first) ==
  LET i == FirstParen(first)
      cut == IF i = 0 THEN first ELSE SubSeq(first, 1, i - 1)
      t == Strip(cut)
  IN IF t # <<>> THEN t ELSE first

\* re.search(r"\((\d+)\s*points?\)", first, re.I)
TitlePoints(first) ==
  IF \E i \in 1..Len(first) : first[i] \in PointsSuffixes
  THEN LET i == CHOOSE i \in 1..Len(first) :
                  first[i] \in PointsSuffixes
                  /\ \A j \in 1..(i - 1) : first[j] \notin PointsSuffixes
       IN Some(PointsOf(first[i]))
  ELSE None

Contains(l, w) == \E i \in 1..Len(l) : l[i] = w

\* SECTION_RE.match(s)
IsSection(s) ==
  /\ s # <<>>
  /\ s[1] \in AsciiUpper \cup SectionWords
  /\ Len(s) >= 2 \/ s[1] \in SectionWords
  /\ \A i \in 2..Len(s) : s[i] \in SectionSyms \cup SectionWords

\* FORMAT_RE.match(s), s stripped
IsFormat(s) ==
  /\ Len(s) >= 2
  /\ LowerSym(s[1]) \in FormatNames
  /\ s[Len(s)] \in PointsSuffixes
  /\ \A i \in 2..(Len(s) - 1) : s[i] \in Whitespace

\* UNIT_LINE_RE.match(s), s stripped
IsUnitLine(s) ==
  /\ Len(s) >= 2
  /\ s[Len(s)] \in PointsSuffixes
  /\ \A i \in 1..(Len(s) - 1) : ~HasParen(s[i])

UnitName(s) == Strip(SubSeq(s, 1, Len(s) - 1))
UnitPoints(s) == PointsOf(s[Len(s)])

EmptyArmy ==
  [title |-> None, points_total |-> None, faction |-> None, chapter |-> None,
   detachment |-> None, format |-> None, format_points |-> None]

\* lines 154-161: the title block
ParseTitle(lines, army) ==
  IF lines # <<>> /\ Strip(lines[1]) # <<>>
  THEN [army EXCEPT !.title = Some(TitleOf(Strip(lines[1]))),
                    !.points_total = TitlePoints(Strip(lines[1]))]
  ELSE army

\* lines 164-174: one turn of the metadata loop
MetaLine(l, army) ==
  LET a1 == IF Contains(l, "Space Marines")
            THEN [army EXCEPT !.faction = Some("Space Marines")] ELSE army
      a2 == IF Contains(l, "Ultramarines")
            THEN [a1 EXCEPT !.chapter = Some("Ultramarines")] ELSE a1
      a3 == IF Contains(l, "Gladius Task Force")
            THEN [a2 EXCEPT !.detachment = Some("Gladius Task Force")] ELSE a2
  IN IF IsFormat(Strip(l))
     THEN [a3 EXCEPT !.format = Some("Incursion"),
                     !.format_points = Some(UnitPoints(Strip(l)))]
     ELSE a3

RECURSIVE ParseMeta(_, _, _)
ParseMeta(lines, i, army) ==
  IF i > Len(lines) \/ i > MetaScanLines THEN army
  ELSE ParseMeta(lines, i + 1, MetaLine(lines[i], army))

KeyIndex(units, k) ==
  IF \E n \in 1..Len(units) : units[n].key = k
  THEN CHOOSE n \in 1..Len(units) : units[n].key = k
  ELSE 0

\* variant: a repeated unit line overwrites display name and point cost
AddUnitLastWins(units, s, current_section) ==
  LET name == UnitName(s)
      k == normalize_name(name)
      n == KeyIndex(units, k)
  IN IF n = 0
     THEN Append(units, [key |-> k, display |-> name, count |-> 1,
                         points_each |-> UnitPoints(s), section |-> current_section])
     ELSE [units EXCEPT ![n].count = @ + 1, ![n].display = name,
                        ![n].points_each = UnitPoints(s)]

\* variant: a repeated unit line moves the entry to the current section
AddUnitSectionLast(units, s, current_section) ==
  LET name == UnitName(s)
      k == normalize_name(name)
      n == KeyIndex(units, k)
  IN IF n = 0
     THEN Append(units, [key |-> k, display |-> name, count |-> 1,
                         points_each |-> UnitPoints(s), section |-> current_section])
     ELSE [units EXCEPT ![n].count = @ + 1, ![n].section = current_section]

\* lines 204-216: a unit line is added to the mapping or counted
AddUnit(units, s, current_section) ==
  LET name == UnitName(s)
      k == normalize_name(name)
      n == KeyIndex(units, k)
  IN IF n = 0
     THEN Append(units, [key |-> k, display |-> name, count |-> 1,
                         points_each |-> UnitPoints(s), section |-> current_section])
     ELSE [units EXCEPT ![n].count = @ + 1]

\* variant: the first line of the export is not skipped
RECURSIVE ParseUnitsCountsFirstLine(_, _, _, _)
ParseUnitsCountsFirstLine(lines, i, current_section, units) ==
  IF i >= Len(lines) THEN units
  ELSE LET s == Strip(lines[i + 1])
       IN IF s = <<>> THEN ParseUnitsCountsFirstLine(lines, i + 1, current_section, units)
          ELSE IF IsSection(s) THEN ParseUnitsCountsFirstLine(lines, i + 1, Some(s), units)
          ELSE IF IsFormat(s) \/ s \in KnownNames
               THEN ParseUnitsCountsFirstLine(lines, i + 1, current_section, units)
          ELSE IF IsUnitLine(s)
               THEN ParseUnitsCountsFirstLine(lines, i + 1, current_section,
                                              AddUnit(units, s, current_section))
          ELSE ParseUnitsCountsFirstLine(lines, i + 1, current_section, units)

\* lines 177-216: the unit loop; i is the 0-based index of enumerate()
RECURSIVE ParseUnits(_, _, _, _)
ParseUnits(lines, i, current_section, units) ==
  IF i >= Len(lines) THEN units
  ELSE LET s == Strip(lines[i + 1])
       IN IF s = <<>> THEN ParseUnits(lines, i + 1, current_section, units)
          ELSE IF IsSection(s) THEN ParseUnits(lines, i + 1, Some(s), units)
          ELSE IF i = 0 \/ IsFormat(s) \/ s \in KnownNames
               THEN ParseUnits(lines, i + 1, current_section, units)
          ELSE IF IsUnitLine(s)
               THEN ParseUnits(lines, i + 1, current_section,
                               AddUnit(units, s, current_section))
          ELSE ParseUnits(lines, i + 1, current_section, units)

\* the mapping is a dict: a sequence of entries in insertion order
parse_export_txt(text) ==
  LET lines == [i \in 1..Len(text) |-> RStrip(text[i])]
  IN [army |-> ParseMeta(lines, 1, ParseTitle(lines, EmptyArmy)),
      units |-> ParseUnits(lines, 0, None, <<>>)]

\* ---------------------------------------------------------------------
\* fuzzy_find
\* ---------------------------------------------------------------------
\* the default of the cutoff parameter, in hundredths
DefaultCutoff == 72

\* code point order of the symbols of a key
Rank(c) ==
  CASE c = " " -> 1
    [] c = "-" -> 2
    [] c = "1" -> 3
    [] c = "a" -> 4
    [] c = "b" -> 5
    [] OTHER -> 6

\* x < y for Python strings
RECURSIVE StrLess(_, _)
StrLess(x, y) ==
  IF y = <<>> THEN FALSE
  ELSE IF x = <<>> THEN TRUE
  ELSE IF Head(x) = Head(y) THEN StrLess(Tail(x), Tail(y))
  ELSE Rank(Head(x)) < Rank(Head(y))

\* the common blocks a[i..i+k-1] = b[j..j+k-1], as <<i, j, k>>
CommonBlocks(a, b) ==
  {t \in (1..Len(a)) \X (1..Len(b)) \X (1..Len(a)) :
     /\ t[1] + t[3] - 1 <= Len(a)
     /\ t[2] + t[3] - 1 <= Len(b)
     /\ \A d \in 0..(t[3] - 1) : a[t[1] + d] = b[t[2] + d]}

MaxOf(S) == CHOOSE i \in S : \A j \in S : i >= j
MinOf(S) == CHOOSE i \in S : \A j \in S : i <= j

\* SequenceMatcher.find_longest_match: the longest block, of those the one
\* that starts earliest in a, of those the one that starts earliest in b
LongestMatch(a, b) ==
  LET S == CommonBlocks(a, b)
      k == MaxOf({t[3] : t \in S})
      i == MinOf({t[1] : t \in {u \in S : u[3] = k}})
      j == MinOf({t[2] : t \in {u \in S : u[3] = k /\ u[1] = i}})
  IN <<i, j, k>>

\* the number of matched symbols of SequenceMatcher.get_matching_blocks
RECURSIVE Matches(_, _)
Matches(a, b) ==
  IF CommonBlocks(a, b) = {} THEN 0
  ELSE LET t == LongestMatch(a, b)
       IN t[3]
          + Matches(SubSeq(a, 1, t[1] - 1), SubSeq(b, 1, t[2] - 1))
          + Matches(SubSeq(a, t[1] + t[3], Len(a)), SubSeq(b, t[2] + t[3], Len(b)))

\* SequenceMatcher(a=x, b=word).ratio() = 2*m/t, kept as the pair of m and t
Ratio(x, word) == [m |-> Matches(x, word), t |-> Len(x) + Len(word)]

\* r.ratio >= cutoff/100; the ratio of two empty strings is 1.0
RatioAtLeast(r, cutoff) ==
  IF r.t = 0 THEN 100 >= cutoff ELSE 200 * r.m >= cutoff * r.t

RatioLess(r1, r2) ==
  IF r1.t = 0 \/ r2.t = 0 THEN r1.t # 0 /\ r2.t = 0 /\ r1.m * 2 < r1.t
  ELSE r1.m * r2.t < r2.m * r1.t

RatioEq(r1, r2) == ~RatioLess(r1, r2) /\ ~RatioLess(r2, r1)

\* variant: the candidates are compared by score alone
ScoreLess(p, q) == RatioLess(p.score, q.score)

\* (score, x) < (score, y) for Python tuples
PairLess(p, q) ==
  \/ RatioLess(p.score, q.score)
  \/ RatioEq(p.score, q.score) /\ StrLess(p.x, q.x)

\* heapq.nlargest(1, result): the first of the greatest pairs
RECURSIVE Largest(_, _)
Largest(result, best) ==
  IF result = <<>> THEN best
  ELSE IF best = None \/ PairLess(best[1], Head(result))
       THEN Largest(Tail(result), Some(Head(result)))
       ELSE Largest(Tail(result), best)

\* the (score, x) list of get_close_matches
RECURSIVE Scored(_, _, _)
Scored(word, possibilities, cutoff) ==
  IF possibilities = <<>> THEN <<>>
  ELSE LET x == Head(possibilities)
           rest == Scored(word, Tail(possibilities), cutoff)
       IN IF RatioAtLeast(Ratio(x, word), cutoff)
          THEN <<[score |-> Ratio(x, word), x |-> x]>> \o rest
          ELSE rest

\* variant: the first possibility that reaches the cutoff is taken
FirstCloseMatch(word, possibilities, cutoff) ==
  LET result == Scored(word, possibilities, cutoff)
  IN IF result = <<>> THEN <<>> ELSE <<result[1].x>>

\* difflib.get_close_matches(word, possibilities, n=1, cutoff=cutoff)
get_close_matches(word, possibilities, cutoff) ==
  LET best == Largest(Scored(word, possibilities, cutoff), None)
  IN IF best = None THEN <<>> ELSE <<best[1].x>>

InSeq(x, s) == \E i \in 1..Len(s) : s[i] = x

\* choices is list(units_by_key.keys()); the scores are in hundredths
fuzzy_find(k, choices, cutoff) ==
  IF InSeq(k, choices) THEN [mkey |-> Some(k), score |-> 100]
  ELSE LET match == get_close_matches(k, choices, cutoff)
       IN IF match # <<>> THEN [mkey |-> Some(match[1]), score |-> 90]
          ELSE [mkey |-> None, score |-> 0]

\* ---------------------------------------------------------------------
\* Python dicts and reminder payloads
\* ---------------------------------------------------------------------
\* a dict is the sequence of its <<key, value>> pairs in insertion order
DictHas(d, k) == \E i \in 1..Len(d) : d[i][1] = k
DictIdx(d, k) == CHOOSE i \in 1..Len(d) : d[i][1] = k
DictGet(d, k) == d[DictIdx(d, k)][2]
\* d[k] = v: a key already present keeps its place
DictSet(d, k, v) ==
  IF DictHas(d, k) THEN [d EXCEPT ![DictIdx(d, k)] = <<k, v>>]
  ELSE Append(d, <<k, v>>)
DictKeys(d) == [i \in 1..Len(d) |-> d[i][1]]

\* the reminders of a phase are a flat list of texts or a dict step -> texts
Flat(l) == [flat |-> TRUE, list |-> l, steps |-> <<>>]
Stepped(d) == [flat |-> FALSE, list |-> <<>>, steps |-> d]

\* the outcome of a call: a returned value, or an exception raised
Returned(v) == [raised |-> FALSE, value |-> v]
Raised == [raised |-> TRUE, value |-> <<>>]

\* ---------------------------------------------------------------------
\* streamlit_app.collect_phase_tips
\* ---------------------------------------------------------------------
\* {s: [] for s in steps.get(phase, [])}
RECURSIVE StepBuckets(_, _)
StepBuckets(ss, d) ==
  IF ss = <<>> THEN d ELSE StepBuckets(Tail(ss), DictSet(d, Head(ss), <<>>))

\* for phase in order: result[phase] = {...}
RECURSIVE DeclarePhases(_, _, _)
DeclarePhases(order, steps, result) ==
  IF order = <<>> THEN result
  ELSE LET phase == Head(order)
           declared == IF DictHas(steps, phase) THEN DictGet(steps, phase) ELSE <<>>
       IN DeclarePhases(Tail(order), steps,
                        DictSet(result, phase, StepBuckets(declared, <<>>)))

\* result[phase][stp].extend(msgs)
Extend(result, phase, stp, msgs) ==
  LET buckets == DictGet(result, phase)
  IN DictSet(result, phase, DictSet(buckets, stp, DictGet(buckets, stp) \o msgs))

\* a step-keyed payload of generic reminders
RECURSIVE AddGenericSteps(_, _, _)
AddGenericSteps(phase, payload, result) ==
  IF payload = <<>> THEN result
  ELSE LET stp == Head(payload)[1]
           msgs == Head(payload)[2]
       IN AddGenericSteps(phase, Tail(payload),
            IF DictHas(result, phase) /\ DictHas(DictGet(result, phase), stp)
            THEN Extend(result, phase, stp, msgs)
            ELSE result)

\* one entry of generic_reminders; a flat list goes to the step "start", or
\* to the first step of the phase when it has no step "start"
AddGenericPhase(phase, payload, result) ==
  IF payload.flat
  THEN IF DictHas(result, phase) /\ DictGet(result, phase) # <<>>
       THEN LET buckets == DictGet(result, phase)
                bucket == IF DictHas(buckets, "start") THEN "start"
                          ELSE DictKeys(buckets)[1]
            IN Extend(result, phase, bucket, payload.list)
       ELSE result
  ELSE AddGenericSteps(phase, payload.steps, result)

RECURSIVE AddGeneric(_, _)
AddGeneric(gen, result) ==
  IF gen = <<>> THEN result
  ELSE AddGeneric(Tail(gen), AddGenericPhase(Head(gen)[1], Head(gen)[2], result))

\* f"[{u['name']}] {m}"
Prefixed(name, m) == <<"[">> \o name \o <<"] ">> \o m

\* for stp, msgs in stepdict.items()
RECURSIVE AddUnitSteps(_, _, _, _)
AddUnitSteps(u, phase, stepdict, result) ==
  IF stepdict = <<>> THEN result
  ELSE LET stp == Head(stepdict)[1]
           msgs == Head(stepdict)[2]
       IN AddUnitSteps(u, phase, Tail(stepdict),
            IF DictHas(DictGet(result, phase), stp) /\ msgs # <<>>
            THEN Extend(result, phase, stp,
                        [i \in 1..Len(msgs) |-> Prefixed(u.name, msgs[i])])
            ELSE result)

\* for phase, stepdict in tips.items(); a flat list has no items(): the call
\* on it raises AttributeError
RECURSIVE AddUnitPhases(_, _, _)
AddUnitPhases(u, tips, out) ==
  IF tips = <<>> \/ out.raised THEN out
  ELSE LET phase == Head(tips)[1]
           stepdict == Head(tips)[2]
       IN IF ~DictHas(out.value, phase) THEN AddUnitPhases(u, Tail(tips), out)
          ELSE IF stepdict.flat THEN Raised
          ELSE AddUnitPhases(u, Tail(tips),
                 Returned(AddUnitSteps(u, phase, stepdict.steps, out.value)))

RECURSIVE AddUnits(_, _)
AddUnits(units, out) ==
  IF units = <<>> \/ out.raised THEN out
  ELSE AddUnits(Tail(units), AddUnitPhases(Head(units), Head(units).play_tips, out))

collect_phase_tips(phases, faction_helpers, selected_units) ==
  AddUnits(selected_units,
    Returned(AddGeneric(faction_helpers.generic_reminders,
                        DeclarePhases(phases.order, phases.steps, <<>>))))

\* ---------------------------------------------------------------------
\* create_cheat_sheet.build_phase_board
\* ---------------------------------------------------------------------
PHASE_ORDER == <<"command", "movement", "shooting", "charge", "fight", "end">>

PhaseLabel(k) ==
  CASE k = "command" -> "Phase de Commandement"
    [] k = "movement" -> "Phase de Mouvement"
    [] k = "shooting" -> "Phase de Tir"
    [] k = "charge" -> "Phase de Charge"
    [] k = "fight" -> "Phase de Combat"
    [] OTHER -> "Fin de tour"

\* f"[{step}] {t}" for every tip of every step
RECURSIVE StepBullets(_)
StepBullets(sp) ==
  IF sp = <<>> THEN <<>>
  ELSE LET step == Head(sp)[1]
           arr == Head(sp)[2]
       IN [i \in 1..Len(arr) |-> Prefixed(<<step>>, arr[i])] \o StepBullets(Tail(sp))

\* the bullets of unit u for one phase
UnitBullets(u, k) ==
  IF ~DictHas(u.play_tips, k) THEN <<>>
  ELSE LET sp == DictGet(u.play_tips, k)
       IN IF sp.flat THEN sp.list ELSE StepBullets(sp.steps)

\* dict phase -> bullets, with the phases that have bullets only
RECURSIVE UnitTipsFrom(_, _, _)
UnitTipsFrom(u, i, out) ==
  IF i > Len(PHASE_ORDER) THEN out
  ELSE LET k == PHASE_ORDER[i]
           bullets == UnitBullets(u, k)
       IN UnitTipsFrom(u, i + 1, IF bullets # <<>> THEN DictSet(out, k, bullets) ELSE out)

collect_phase_tips_for_unit(faction_helpers, u) == UnitTipsFrom(u, 1, <<>>)

\* the <li> items of the board
HeaderItem == [kind |-> "header", who |-> <<>>, text |-> <<"Rappels generaux :">>]
GenericItem(x) == [kind |-> "generic", who |-> <<>>, text |-> x]
TipItem(uname, b) == [kind |-> "tip", who |-> uname, text |-> b]
alt_item == [kind |-> "placeholder", who |-> <<>>, text |-> <<"&mdash;">>]

\* gen.get(key) or []; iterating a step-keyed dict yields its keys
GenericList(gen, k) ==
  IF ~DictHas(gen, k) THEN <<>>
  ELSE LET p == DictGet(gen, k)
       IN IF p.flat THEN p.list
          ELSE [i \in 1..Len(p.steps) |-> <<p.steps[i][1]>>]

GenericItems(gen, k) ==
  LET gen_list == GenericList(gen, k)
  IN IF gen_list = <<>> THEN <<>>
     ELSE <<HeaderItem>> \o [i \in 1..Len(gen_list) |-> GenericItem(gen_list[i])]

\* variant: the units are walked from the last to the first
RECURSIVE UnitItemsLastFirst(_, _, _)
UnitItemsLastFirst(faction_helpers, matched_units, k) ==
  IF matched_units = <<>> THEN <<>>
  ELSE LET mu == Head(matched_units)
           rest == UnitItemsLastFirst(faction_helpers, Tail(matched_units), k)
       IN IF mu.unit = None THEN rest
          ELSE LET u == mu.unit[1]
                   bullets == UnitBullets(u, k)
               IN rest \o [i \in 1..Len(bullets) |-> TipItem(u.name, bullets[i])]

\* variant: the tips carry the display name of the export
RECURSIVE UnitItemsDisplayName(_, _, _)
UnitItemsDisplayName(faction_helpers, matched_units, k) ==
  IF matched_units = <<>> THEN <<>>
  ELSE LET mu == Head(matched_units)
           rest == UnitItemsDisplayName(faction_helpers, Tail(matched_units), k)
       IN IF mu.unit = None THEN rest
          ELSE LET bullets == UnitBullets(mu.unit[1], k)
               IN [i \in 1..Len(bullets) |-> TipItem(mu.display, bullets[i])] \o rest

\* the items of the matched units for phase k, in the order of the units;
\* uname = u.get("name", mu["display"]) is the name of the catalog record,
\* which every record kept by the loader has
RECURSIVE UnitItems(_, _, _)
UnitItems(faction_helpers, matched_units, k) ==
  IF matched_units = <<>> THEN <<>>
  ELSE LET mu == Head(matched_units)
           rest == UnitItems(faction_helpers, Tail(matched_units), k)
       IN IF mu.unit = None THEN rest
          ELSE LET u == mu.unit[1]
                   unit_tips == collect_phase_tips_for_unit(faction_helpers, u)
                   bullets == IF DictHas(unit_tips, k) THEN DictGet(unit_tips, k) ELSE <<>>
               IN [i \in 1..Len(bullets) |-> TipItem(u.name, bullets[i])] \o rest

PhaseBox(faction_helpers, matched_units, strats, k) ==
  LET items == GenericItems(faction_helpers.generic_reminders, k)
               \o UnitItems(faction_helpers, matched_units, k)
               \o (IF DictHas(strats, k) THEN DictGet(strats, k) ELSE <<>>)
  IN [phase |-> k, label |-> PhaseLabel(k),
      items |-> IF items # <<>> THEN items ELSE <<alt_item>>]

\* the boxes of the two columns, three phases each
build_phase_board(faction_helpers, matched_units, strats) ==
  LET box(i) == PhaseBox(faction_helpers, matched_units, strats, PHASE_ORDER[i])
  IN [colA |-> [i \in 1..3 |-> box(i)], colB |-> [i \in 1..3 |-> box(i + 3)]]

\* ---------------------------------------------------------------------
\* Stratagems: normalize_timing and strat_items_by_phase
\* ---------------------------------------------------------------------
\* s.get(k, default) on a field that is unset (None) or set (Some)
GetOr(field, default) == IF field = None THEN default ELSE field[1]

\* the alias dict of normalize_timing
StepAlias(step) ==
  CASE step = "after_enemy_selects_targets" -> "start"
    [] step = "after_enemy_resolves_attacks" -> "end"
    [] step = "after_enemy_ends_move" -> "start"
    [] step = "after_enemy_declares_charge" -> "declare"
    [] step = "after_enemy_ends_charge_move" -> "move"
    [] step = "reinforcements" -> "start"
    [] step = "any" -> "start"
    [] OTHER -> step

\* variant: one colour for the player and for both players
PlayerPrefixTwoColours(who) ==
  CASE who = "opponent" -> "U+1F7E5"
    [] OTHER -> "U+1F7E6"

\* the prefix dict of normalize_timing: the blue, red and yellow squares
Players == {"you", "opponent", "any"}
PlayerPrefix(who) ==
  CASE who = "you" -> "U+1F7E6"
    [] who = "opponent" -> "U+1F7E5"
    [] OTHER -> "U+1F7E8"

\* indexing the prefix dict with another player raises KeyError
normalize_timing(s) ==
  LET phase == GetOr(s.phase, "command")
      step == StepAlias(GetOr(s.step, "start"))
      who == GetOr(s.player, "you")
  IN IF who \in Players
     THEN Returned([phase |-> phase, step |-> step,
                    label |-> <<PlayerPrefix(who), " Strat ">>])
     ELSE Raised

\* the <li> line of one timing window of stratagem st
StratItem(st, t) ==
  [kind |-> "strat", who |-> st.name,
   text |-> t.label \o <<st.cp, "CP", "[", t.step, "]", st.effect>>]

\* bucket[phase].append(line) on a defaultdict(list)
BucketAppend(bucket, phase, line) ==
  DictSet(bucket, phase,
          (IF DictHas(bucket, phase) THEN DictGet(bucket, phase) ELSE <<>>) \o <<line>>)

\* for w in st.get("when", [])
RECURSIVE AddWindows(_, _, _)
AddWindows(st, when, out) ==
  IF when = <<>> \/ out.raised THEN out
  ELSE LET t == normalize_timing(Head(when))
       IN IF t.raised THEN Raised
          ELSE AddWindows(st, Tail(when),
                          Returned(BucketAppend(out.value, t.value.phase,
                                                StratItem(st, t.value))))

\* variant: the test of the detachment list is inverted
SkipsStratagemInverted(st, detachment_name) ==
  /\ detachment_name # None
  /\ InSeq(detachment_name[1], st.detachment)
  /\ ~InSeq("All", st.detachment)

\* the detachment filter: only when a detachment is given
SkipsStratagem(st, detachment_name) ==
  /\ detachment_name # None
  /\ ~InSeq(detachment_name[1], st.detachment)
  /\ ~InSeq("All", st.detachment)

RECURSIVE AddStratagems(_, _, _)
AddStratagems(strats, detachment_name, out) ==
  IF strats = <<>> \/ out.raised THEN out
  ELSE LET st == Head(strats)
       IN AddStratagems(Tail(strats), detachment_name,
            IF SkipsStratagem(st, detachment_name) THEN out
            ELSE AddWindows(st, st.when, out))

strat_items_by_phase(strats, detachment_name) ==
  AddStratagems(strats, detachment_name, Returned(<<>>))

\* ---------------------------------------------------------------------
\* load_units_from_yaml_dir
\* ---------------------------------------------------------------------
\* the built-in faction helpers
DefaultHelpers ==
  [turn_start |-> <<<<"Declarer les effets de detachement.">>>>,
   generic_reminders |->
     <<<<"command", Flat(<<<<"Gagner CP.">>>>)>>,
       <<"movement", Flat(<<<<"Mesurer menaces.">>>>)>>,
       <<"shooting", Flat(<<<<"Choisir cibles.">>>>)>>,
       <<"charge", Flat(<<<<"Penser multi-charge.">>>>)>>,
       <<"fight", Flat(<<<<"Activer dans le bon ordre.">>>>)>>,
       <<"end", Flat(<<<<"Compter OC.">>>>)>>>>]

\* variant: the first record of a key is kept
RECURSIVE LoadUnitsFirstWins(_, _)
LoadUnitsFirstWins(units, units_by_key) ==
  IF units = <<>> THEN units_by_key
  ELSE LET u == Head(units)
       IN LoadUnitsFirstWins(Tail(units),
            IF u.name # <<>> /\ ~DictHas(units_by_key, normalize_name(u.name))
            THEN DictSet(units_by_key, normalize_name(u.name), u)
            ELSE units_by_key)

\* for u in data["units"]: a unit without a name is left out
RECURSIVE LoadUnits(_, _)
LoadUnits(units, units_by_key) ==
  IF units = <<>> THEN units_by_key
  ELSE LET u == Head(units)
       IN LoadUnits(Tail(units),
                    IF u.name # <<>> THEN DictSet(units_by_key, normalize_name(u.name), u)
                    ELSE units_by_key)

\* variant: the faction helpers of the last document that has some are kept
RECURSIVE LoadDocsLastHelpers(_, _)
LoadDocsLastHelpers(docs, acc) ==
  IF docs = <<>> THEN acc
  ELSE LET data == Head(docs)
           fh == IF data.faction_helpers # None THEN data.faction_helpers
                 ELSE acc.faction_helpers
       IN LoadDocsLastHelpers(Tail(docs),
                   [units_by_key |-> LoadUnits(data.units, acc.units_by_key),
                    faction_helpers |-> fh])

\* docs are the documents of the directory in sorted path order
RECURSIVE LoadDocs(_, _)
LoadDocs(docs, acc) ==
  IF docs = <<>> THEN acc
  ELSE LET data == Head(docs)
           fh == IF acc.faction_helpers = None THEN data.faction_helpers
                 ELSE acc.faction_helpers
       IN LoadDocs(Tail(docs),
                   [units_by_key |-> LoadUnits(data.units, acc.units_by_key),
                    faction_helpers |-> fh])

load_units_from_yaml_dir(docs) ==
  LET acc == LoadDocs(docs, [units_by_key |-> <<>>, faction_helpers |-> None])
  IN [units_by_key |-> acc.units_by_key,
      faction_helpers |-> IF acc.faction_helpers = None THEN DefaultHelpers
                          ELSE acc.faction_helpers[1]]

\* sorted(glob.glob(...)): the files of the listing in ascending path order
RECURSIVE SortedByPath(_)
SortedByPath(files) ==
  IF files = <<>> THEN <<>>
  ELSE LET n == CHOOSE n \in 1..Len(files) :
                  \A m \in 1..Len(files) : m = n \/ StrLess(files[n].path, files[m].path)
       IN <<files[n]>> \o SortedByPath(SubSeq(files, 1, n - 1) \o SubSeq(files, n + 1, Len(files)))

\* the documents read from the files of the directory, in the order of the
\* for loop
DocsInPathOrder(files) ==
  LET sorted == SortedByPath(files)
  IN [i \in 1..Len(sorted) |-> sorted[i].data]

\* ---------------------------------------------------------------------
\* run
\* ---------------------------------------------------------------------
\* section_order.get((x["section"] or "").upper(), 9)
SectionOrder(section) ==
  CASE section = <<"CHARACTERS">> -> 0
    [] section = <<"BATTLELINE">> -> 1
    [] section = <<"DEDICATED TRANSPORTS">> -> 2
    [] section = <<"OTHER DATASHEETS">> -> 3
    [] OTHER -> 9

\* variant: the unit is looked up whenever fuzzy_find returned a key
AttachUnitOfAnyKey(units_by_key, f) ==
  IF f.mkey # None THEN Some(DictGet(units_by_key, f.mkey[1])) ELSE None

\* units_by_key.get(mkey) if mkey else None: the empty key is falsy
AttachUnit(units_by_key, f) ==
  IF f.mkey # None /\ f.mkey[1] # <<>>
  THEN Some(DictGet(units_by_key, f.mkey[1]))
  ELSE None

\* the matched record of one entry of the parsed mapping
MatchedRecord(info, units_by_key) ==
  LET f == fuzzy_find(info.key, DictKeys(units_by_key), DefaultCutoff)
  IN [query_key |-> info.key, display |-> info.display, count |-> info.count,
      points_each |-> info.points_each,
      section |-> GetOr(info.section, <<>>),
      unit |-> AttachUnit(units_by_key, f),
      match_score |-> f.score]

\* the sort key (section order, -match_score)
SortsBefore(x, y) ==
  \/ SectionOrder(x.section) < SectionOrder(y.section)
  \/ /\ SectionOrder(x.section) = SectionOrder(y.section)
     /\ x.match_score > y.match_score

\* list.sort is stable: x goes behind the records that do not sort after it
RECURSIVE InsertSorted(_, _)
InsertSorted(sorted, x) ==
  IF sorted = <<>> THEN <<x>>
  ELSE IF SortsBefore(x, Head(sorted)) THEN <<x>> \o sorted
  ELSE <<Head(sorted)>> \o InsertSorted(Tail(sorted), x)

RECURSIVE SortMatched(_, _)
SortMatched(matched, sorted) ==
  IF matched = <<>> THEN sorted
  ELSE SortMatched(Tail(matched), InsertSorted(sorted, Head(matched)))

\* run up to the timeline of generate_html; the stratagems are those of
\* stratagems.yaml
run(text, docs, stratagems) ==
  LET p == parse_export_txt(text)
      loaded == load_units_from_yaml_dir(docs)
      matched == SortMatched([i \in 1..Len(p.units) |->
                                MatchedRecord(p.units[i], loaded.units_by_key)], <<>>)
      strats == strat_items_by_phase(stratagems, p.army.detachment)
  IN IF strats.raised THEN Raised
     ELSE Returned([army |-> p.army, listed |-> p.units,
                    units_by_key |-> loaded.units_by_key,
                    matched |-> matched, strats |-> strats.value,
                    board |-> build_phase_board(loaded.faction_helpers, matched,
                                                strats.value)])

\* ---------------------------------------------------------------------
\* State
\* ---------------------------------------------------------------------
VARIABLES
  raw,      \* a raw name
  variant,  \* a respelling of raw: letters re-cased, apostrophes deleted
  key,      \* normalize_name(raw), once computed
  varkey,   \* normalize_name(variant), once computed
  rekey,    \* normalize_name(key), once computed
  export,   \* the lines of the export file
  parsed,   \* what parse_export_txt returned for export, once called
  choices,  \* the keys of units_by_key, in insertion order
  query,    \* the key looked up
  cutoff,   \* the cutoff, in hundredths
  found,    \* what fuzzy_find returned, once called
  foundFor, \* the insertion order of the catalog fuzzy_find was called with
  phases,   \* the phase definition: order and steps
  helpers,  \* the faction helpers
  selected, \* the matched units of the list
  buckets,  \* the stratagem items by phase
  tipsOut,  \* the outcome of collect_phase_tips, once called
  boardOut, \* what build_phase_board returned, once called
  runExport,     \* the lines of the export file given to run
  runDocs,       \* the documents of the YAML directory, in path order
  runStratagems, \* the stratagems of stratagems.yaml
  runOut,        \* the outcome of run, once called
  listing, \* the documents of the YAML directory with their paths, as glob lists them
  catalog, \* what load_units_from_yaml_dir returned, once called
  stratList, \* the stratagem list given to strat_items_by_phase
  stratDetachment, \* the detachment name given to it, if any
  stratOut, \* what the call did, once made
  label, \* a unit name, as a catalog or an export spells it
  stored, \* norm(label), the key the unit index stores, once computed
  lookedUp, \* norm(stored), the key a lookup through norm asks for, once computed
  heap, \* the objects of the loaded catalog, by address
  loadedHeap, \* the heap as it was right after load
  roots, \* the addresses of the unit list, the unit mapping, the stratagem list and the faction helpers
  calls, \* how many calls were made since load
  lastCall \* the last call made, if any

normVars == <<raw, variant, key, varkey, rekey>>
parseVars == <<export, parsed>>
fuzzyVars == <<choices, query, cutoff, found, foundFor>>
aggVars == <<phases, helpers, selected, buckets, tipsOut, boardOut>>
runVars == <<runExport, runDocs, runStratagems, runOut>>
loadVars == <<listing, catalog>>
stratVars == <<stratList, stratDetachment, stratOut>>
indexVars == <<label, stored, lookedUp>>
frameVars == <<heap, loadedHeap, roots, calls, lastCall>>
vars == <<normVars, parseVars, fuzzyVars, aggVars, runVars, loadVars, stratVars, indexVars, frameVars>>

NormIdle == raw = <<>> /\ variant = <<>> /\ key = None /\ varkey = None /\ rekey = None
ParseIdle == export = <<>> /\ parsed = None
FuzzyIdle ==
  choices = <<>> /\ query = <<>> /\ cutoff = 0 /\ found = None /\ foundFor = <<>>
AggIdle ==
  /\ phases = <<>> /\ helpers = <<>> /\ selected = <<>> /\ buckets = <<>>
  /\ tipsOut = None /\ boardOut = None
RunIdle ==
  runExport = <<>> /\ runDocs = <<>> /\ runStratagems = <<>> /\ runOut = None
LoadIdle ==
  listing = <<>> /\ catalog = None
StratIdle ==
  stratList = <<>> /\ stratDetachment = None /\ stratOut = None
IndexIdle ==
  label = <<>> /\ stored = None /\ lookedUp = None
FrameIdle ==
  heap = <<>> /\ loadedHeap = <<>> /\ roots = None /\ calls = 0 /\ lastCall = None

\* ---------------------------------------------------------------------
\* Normalizer: normalize_name applied to raw names and their respellings
\* ---------------------------------------------------------------------
NameSyms == {"a", "A", "U+00C9", "U+00E9", "'", "U+2019", " ", "\t", "!", "-"}
RawNames == SeqsUpTo(NameSyms, MaxLen)

SwapCaseSym(c) ==
  CASE c = "a" -> "A"
    [] c = "A" -> "a"
    [] c = "b" -> "B"
    [] c = "B" -> "b"
    [] c = "U+00E9" -> "U+00C9"
    [] c = "U+00C9" -> "U+00E9"
    [] OTHER -> c

RemoveAt(s, i) == SubSeq(s, 1, i - 1) \o SubSeq(s, i + 1, Len(s))

InitNorm ==
  /\ raw \in RawNames
  /\ variant = raw
  /\ key = None
  /\ varkey = None
  /\ rekey = None
  /\ ParseIdle
  /\ FuzzyIdle
  /\ AggIdle
  /\ RunIdle
  /\ LoadIdle
  /\ StratIdle
  /\ IndexIdle
  /\ FrameIdle

\* the caller respells the name: one letter changes case
ChangeCase ==
  \E i \in 1..Len(variant) :
    /\ variant[i] \in LowerLetters \cup UpperLetters
    /\ variant' = [variant EXCEPT ![i] = SwapCaseSym(variant[i])]
    /\ varkey' = None
    /\ UNCHANGED <<raw, key, rekey, parseVars, fuzzyVars, aggVars, runVars, loadVars, stratVars, indexVars, frameVars>>

\* the caller respells the name: one apostrophe is deleted
DeleteApostrophe ==
  \E i \in 1..Len(variant) :
    /\ variant[i] \in Apostrophes
    /\ variant' = RemoveAt(variant, i)
    /\ varkey' = None
    /\ UNCHANGED <<raw, key, rekey, parseVars, fuzzyVars, aggVars, runVars, loadVars, stratVars, indexVars, frameVars>>

NormalizeRaw ==
  /\ key = None
  /\ key' = Some(normalize_name(raw))
  /\ UNCHANGED <<raw, variant, varkey, rekey, parseVars, fuzzyVars, aggVars, runVars, loadVars, stratVars, indexVars, frameVars>>

NormalizeVariant ==
  /\ varkey = None
  /\ varkey' = Some(normalize_name(variant))
  /\ UNCHANGED <<raw, variant, key, rekey, parseVars, fuzzyVars, aggVars, runVars, loadVars, stratVars, indexVars, frameVars>>

NormalizeKey ==
  /\ key # None
  /\ rekey = None
  /\ rekey' = Some(normalize_name(key[1]))
  /\ UNCHANGED <<raw, variant, key, varkey, parseVars, fuzzyVars, aggVars, runVars, loadVars, stratVars, indexVars, frameVars>>

NextNorm ==
  \/ ChangeCase
  \/ DeleteApostrophe
  \/ NormalizeRaw
  \/ NormalizeVariant
  \/ NormalizeKey

SpecNorm == InitNorm /\ [][NextNorm]_vars

\* ---------------------------------------------------------------------
\* Export parser: parse_export_txt applied to an export
\* ---------------------------------------------------------------------
LinePool ==
  {<<>>,
   <<"A", "b", " ", "(7 points)">>,
   <<"a", "'", "B", "(5 points)">>,
   <<"B", " ", "(5 points)">>,
   <<"!", " ", "(5 points)">>,
   <<"A", "B">>,
   <<"B", " ", "A">>,
   <<"Incursion", " ", "(7 points)">>,
   <<"Gladius Task Force">>,
   <<"Space Marines", " ", "Ultramarines">>,
   <<" ", "!", "a", "\t">>,
   <<"a", "(", "b", ")">>}

Exports == SeqsUpTo(LinePool, MaxLines)

InitParse ==
  /\ export \in Exports
  /\ parsed = None
  /\ NormIdle
  /\ FuzzyIdle
  /\ AggIdle
  /\ RunIdle
  /\ LoadIdle
  /\ StratIdle
  /\ IndexIdle
  /\ FrameIdle

ParseExport ==
  /\ parsed = None
  /\ parsed' = Some(parse_export_txt(export))
  /\ UNCHANGED <<export, normVars, fuzzyVars, aggVars, runVars, loadVars, stratVars, indexVars, frameVars>>

NextParse == ParseExport

SpecParse == InitParse /\ [][NextParse]_vars

\* ---------------------------------------------------------------------
\* Export parser on exports with section headers
\* ---------------------------------------------------------------------
SectionLinePool ==
  {<<"A", "B">>,
   <<"B", " ", "A">>,
   <<"A">>,
   <<"-", "A">>,
   <<"A", "b", " ", "(7 points)">>,
   <<"a", "'", "B", "(5 points)">>,
   <<"B", " ", "(5 points)">>}

InitSection ==
  /\ export \in SeqsUpTo(SectionLinePool, MaxSectionLines)
  /\ parsed = None
  /\ NormIdle
  /\ FuzzyIdle
  /\ AggIdle
  /\ RunIdle
  /\ LoadIdle
  /\ StratIdle
  /\ IndexIdle
  /\ FrameIdle

SpecSection == InitSection /\ [][NextParse]_vars

\* ---------------------------------------------------------------------
\* Fuzzy resolver: fuzzy_find applied to a key and a catalog
\* ---------------------------------------------------------------------
KeySyms == {"a", "b"}
Keys == SeqsUpTo(KeySyms, MaxKeyLen)
Cutoffs == {0, 50, DefaultCutoff, 100}

\* the catalogs, their keys inserted in ascending order
SortedCatalogs ==
  {c \in SeqsUpTo(Keys, MaxCatalog) :
     \A i \in 1..(Len(c) - 1) : StrLess(c[i], c[i + 1])}

InitFuzzy ==
  /\ choices \in SortedCatalogs
  /\ query \in Keys
  /\ cutoff \in Cutoffs
  /\ found = None
  /\ foundFor = <<>>
  /\ NormIdle
  /\ ParseIdle
  /\ AggIdle
  /\ RunIdle
  /\ LoadIdle
  /\ StratIdle
  /\ IndexIdle
  /\ FrameIdle

Resolve ==
  /\ found = None
  /\ found' = Some(fuzzy_find(query, choices, cutoff))
  /\ foundFor' = choices
  /\ UNCHANGED <<choices, query, cutoff, normVars, parseVars, aggVars, runVars, loadVars, stratVars, indexVars, frameVars>>

\* the same units are loaded again in another order: two neighbours of the
\* insertion order change places
Reinsert ==
  /\ found # None
  /\ \E i \in 1..(Len(choices) - 1) :
       choices' = [choices EXCEPT ![i] = choices[i + 1], ![i + 1] = choices[i]]
  /\ UNCHANGED <<query, cutoff, found, foundFor, normVars, parseVars, aggVars, runVars, loadVars, stratVars, indexVars, frameVars>>

NextFuzzy ==
  \/ Resolve
  \/ Reinsert

SpecFuzzy == InitFuzzy /\ [][NextFuzzy]_vars

\* ---------------------------------------------------------------------
\* Aggregation: collect_phase_tips and build_phase_board applied to a phase
\* definition, faction helpers and the units of a list
\* ---------------------------------------------------------------------
Tip1 == <<"tip one">>
Tip2 == <<"tip two">>
Gen1 == <<"reminder one">>
Gen2 == <<"reminder two">>

\* catalog units: play tips keyed by step, flat, for two phases, none
UnitStepped ==
  [name |-> <<"A", "b">>,
   play_tips |-> <<<<"command", Stepped(<<<<"start", <<Tip1>>>>, <<"other", <<Tip2>>>>>>)>>>>]
UnitFlat ==
  [name |-> <<"A", "b", "b">>,
   play_tips |-> <<<<"command", Flat(<<Tip1, Tip2>>)>>>>]
UnitTwoPhases ==
  [name |-> <<"b", "a">>,
   play_tips |-> <<<<"fight", Flat(<<Tip2>>)>>,
                   <<"movement", Stepped(<<<<"move", <<Tip1, Tip2>>>>, <<"start", <<>>>>>>)>>>>]
UnitNoTips == [name |-> <<"?">>, play_tips |-> <<>>]

\* a matched record as run builds it
Resolved(u, display, score) ==
  [query_key |-> normalize_name(display), display |-> display, count |-> 1,
   points_each |-> 5, section |-> <<>>, unit |-> Some(u), match_score |-> score]
Unresolved ==
  [query_key |-> <<"b">>, display |-> <<"B">>, count |-> 1, points_each |-> 5,
   section |-> <<>>, unit |-> None, match_score |-> 0]

MatchedPool ==
  {Resolved(UnitStepped, <<"a", "'", "B">>, 100), Resolved(UnitFlat, <<"A", "b">>, 90),
   Resolved(UnitTwoPhases, <<"b", "a">>, 100), Resolved(UnitNoTips, <<"?">>, 100),
   Unresolved}

OrderPool ==
  {<<>>, <<"command">>, <<"command", "movement">>, <<"movement", "command">>}
StepsPool ==
  {<<>>,
   <<<<"command", <<"start">>>>>>,
   <<<<"command", <<"move", "start">>>>, <<"movement", <<"move">>>>>>,
   <<<<"command", <<>>>>, <<"movement", <<"start", "start">>>>, <<"fight", <<"start">>>>>>}

GenericPool ==
  {<<>>,
   <<<<"command", Flat(<<Gen1>>)>>>>,
   <<<<"command", Stepped(<<<<"start", <<Gen2>>>>, <<"other", <<Gen1>>>>>>)>>>>,
   <<<<"fight", Flat(<<Gen1, Gen2>>)>>, <<"movement", Flat(<<Gen1>>)>>>>,
   DefaultHelpers.generic_reminders}

StratA ==
  [name |-> <<"Strat A">>, cp |-> "1", effect |-> "effect A",
   detachment |-> <<"Gladius Task Force">>,
   when |-> <<[phase |-> Some("command"), step |-> Some("start"), player |-> Some("you")]>>]
StratB ==
  [name |-> <<"Strat B">>, cp |-> "2", effect |-> "effect B",
   detachment |-> <<"Anvil Siege Force">>,
   when |-> <<[phase |-> Some("shooting"), step |-> Some("after_enemy_selects_targets"),
               player |-> Some("opponent")]>>]
StratAll ==
  [name |-> <<"Strat All">>, cp |-> "1", effect |-> "effect C",
   detachment |-> <<"All">>,
   when |-> <<[phase |-> Some("fight"), step |-> None, player |-> Some("any")],
              [phase |-> None, step |-> Some("any"), player |-> None]>>]
StratNoDetachment ==
  [name |-> <<"Strat D">>, cp |-> "1", effect |-> "effect D",
   detachment |-> <<>>,
   when |-> <<[phase |-> Some("end"), step |-> Some("end"), player |-> Some("you")]>>]
StratSelf ==
  [name |-> <<"Strat E">>, cp |-> "1", effect |-> "effect E",
   detachment |-> <<"Gladius Task Force", "Anvil Siege Force">>,
   when |-> <<[phase |-> Some("charge"), step |-> Some("declare"), player |-> Some("self")]>>]

BucketsPool ==
  {strat_items_by_phase(ss, None).value : ss \in {<<>>, <<StratA>>, <<StratNoDetachment, StratAll>>}}

\* the units found in the index: the resolved records' catalog entries
RECURSIVE SelectedUnits(_)
SelectedUnits(ms) ==
  IF ms = <<>> THEN <<>>
  ELSE (IF Head(ms).unit = None THEN <<>> ELSE <<Head(ms).unit[1]>>)
       \o SelectedUnits(Tail(ms))

InitAgg ==
  /\ phases \in [order : OrderPool, steps : StepsPool]
  /\ helpers \in [turn_start : {<<>>}, generic_reminders : GenericPool]
  /\ selected \in SeqsUpTo(MatchedPool, MaxCatalog)
  /\ buckets \in BucketsPool
  /\ tipsOut = None
  /\ boardOut = None
  /\ NormIdle
  /\ ParseIdle
  /\ FuzzyIdle
  /\ RunIdle
  /\ LoadIdle
  /\ StratIdle
  /\ IndexIdle
  /\ FrameIdle

CollectPhaseTips ==
  /\ tipsOut = None
  /\ tipsOut' = Some(collect_phase_tips(phases, helpers, SelectedUnits(selected)))
  /\ UNCHANGED <<phases, helpers, selected, buckets, boardOut,
                 normVars, parseVars, fuzzyVars, runVars, loadVars, stratVars, indexVars, frameVars>>

BuildPhaseBoard ==
  /\ boardOut = None
  /\ boardOut' = Some(build_phase_board(helpers, selected, buckets))
  /\ UNCHANGED <<phases, helpers, selected, buckets, tipsOut,
                 normVars, parseVars, fuzzyVars, runVars, loadVars, stratVars, indexVars, frameVars>>

NextAgg ==
  \/ CollectPhaseTips
  \/ BuildPhaseBoard

SpecAgg == InitAgg /\ [][NextAgg]_vars

\* ---------------------------------------------------------------------
\* Stratagems: strat_items_by_phase applied to a stratagem list
\* ---------------------------------------------------------------------
StratEither ==
  [name |-> <<"Strat F">>, cp |-> "0", effect |-> "effect F",
   detachment |-> <<"All">>,
   when |-> <<[phase |-> Some("fight"), step |-> Some("end"), player |-> Some("opponent")],
              [phase |-> Some("fight"), step |-> Some("start"), player |-> Some("either")]>>]

StratThree ==
  [name |-> <<"Strat G">>, cp |-> "1", effect |-> "effect G",
   detachment |-> <<"Gladius Task Force">>,
   when |-> <<[phase |-> Some("movement"), step |-> Some("reinforcements"), player |-> Some("any")],
              [phase |-> Some("movement"), step |-> None, player |-> Some("opponent")],
              [phase |-> Some("charge"), step |-> Some("declare"), player |-> None],
              [phase |-> Some("movement"), step |-> Some("move"), player |-> Some("you")]>>]

StratPool ==
  {StratA, StratB, StratAll, StratNoDetachment, StratSelf, StratEither, StratThree}
DetachmentPool == {None, Some("Gladius Task Force"), Some("Anvil Siege Force")}

InitStrat ==
  /\ stratList \in SeqsUpTo(StratPool, MaxStratagems)
  /\ stratDetachment \in DetachmentPool
  /\ stratOut = None
  /\ NormIdle
  /\ ParseIdle
  /\ FuzzyIdle
  /\ AggIdle
  /\ RunIdle
  /\ LoadIdle
  /\ IndexIdle
  /\ FrameIdle

StratItemsByPhase ==
  /\ stratOut = None
  /\ stratOut' = Some(strat_items_by_phase(stratList, stratDetachment))
  /\ UNCHANGED <<stratList, stratDetachment,
                 normVars, parseVars, fuzzyVars, aggVars, runVars, loadVars, indexVars, frameVars>>

NextStrat == StratItemsByPhase

SpecStrat == InitStrat /\ [][NextStrat]_vars

\* ---------------------------------------------------------------------
\* Unit index keys: norm applied to a unit name and to the key it gives
\* ---------------------------------------------------------------------
\* the pieces unit names are made of
Pieces ==
  {<<"w", "i", "t", "h">>,
   <<" ", "j", "u", "m", "p", " ", "p", "a", "c", "k", "s">>,
   <<" ">>, <<"\n">>, <<"s">>, <<"(">>, <<")">>, <<"w", "/">>, <<"A">>, <<"b">>}

RECURSIVE Concat(_)
Concat(ps) == IF ps = <<>> THEN <<>> ELSE Head(ps) \o Concat(Tail(ps))

Labels == {Concat(ps) : ps \in SeqsUpTo(Pieces, MaxPieces)}

InitIndex ==
  /\ label \in Labels
  /\ stored = None
  /\ lookedUp = None
  /\ NormIdle
  /\ ParseIdle
  /\ FuzzyIdle
  /\ AggIdle
  /\ RunIdle
  /\ LoadIdle
  /\ StratIdle
  /\ FrameIdle

\* idx = {norm(u["name"]): u ...}
StoreKey ==
  /\ stored = None
  /\ stored' = Some(norm(label))
  /\ UNCHANGED <<label, lookedUp,
                 normVars, parseVars, fuzzyVars, aggVars, runVars, loadVars, stratVars, frameVars>>

\* units_index.get(norm(...)) asked for the stored key
LookUpKey ==
  /\ stored # None
  /\ lookedUp = None
  /\ lookedUp' = Some(norm(stored[1]))
  /\ UNCHANGED <<label, stored,
                 normVars, parseVars, fuzzyVars, aggVars, runVars, loadVars, stratVars, frameVars>>

NextIndex ==
  \/ StoreKey
  \/ LookUpKey

SpecIndex == InitIndex /\ [][NextIndex]_vars

\* ---------------------------------------------------------------------
\* Catalog loader: load_units_from_yaml_dir applied to a YAML directory
\* ---------------------------------------------------------------------
\* a second record of the key "ab"
UnitAlias ==
  [name |-> <<"a", "'", "B">>,
   play_tips |-> <<<<"end", Flat(<<Tip1>>)>>>>]
UnitUnnamed == [name |-> <<>>, play_tips |-> <<>>]
HelpersOne == [turn_start |-> <<>>, generic_reminders |-> <<<<"command", Flat(<<Gen1>>)>>>>]
HelpersTwo == [turn_start |-> <<Gen2>>, generic_reminders |-> <<>>]

DataPool ==
  {[faction_helpers |-> None, units |-> <<UnitStepped>>],
   [faction_helpers |-> None, units |-> <<UnitAlias, UnitNoTips>>],
   [faction_helpers |-> Some(HelpersOne), units |-> <<UnitStepped, UnitAlias>>],
   [faction_helpers |-> Some(HelpersTwo), units |-> <<>>],
   [faction_helpers |-> Some(HelpersOne), units |-> <<UnitUnnamed, UnitFlat>>],
   [faction_helpers |-> None, units |-> <<>>],
   [faction_helpers |-> Some(HelpersTwo), units |-> <<UnitAlias>>],
   [faction_helpers |-> None, units |-> <<UnitNoTips, UnitStepped>>]}

\* file names, without the directory and the extension they share
PathPool == {<<"a">>, <<"a", "b">>, <<"b">>, <<"b", "1">>}

\* glob lists the files of a directory in any order; no two share a path
Listings ==
  {l \in SeqsUpTo([path : PathPool, data : DataPool], MaxDocs) :
     \A i, j \in 1..Len(l) : l[i].path = l[j].path => i = j}

InitLoad ==
  /\ listing \in Listings
  /\ catalog = None
  /\ NormIdle
  /\ ParseIdle
  /\ FuzzyIdle
  /\ AggIdle
  /\ RunIdle
  /\ StratIdle
  /\ IndexIdle
  /\ FrameIdle

LoadCatalog ==
  /\ catalog = None
  /\ catalog' = Some(load_units_from_yaml_dir(DocsInPathOrder(listing)))
  /\ UNCHANGED <<listing, normVars, parseVars, fuzzyVars, aggVars, runVars, stratVars, indexVars, frameVars>>

NextLoad == LoadCatalog

SpecLoad == InitLoad /\ [][NextLoad]_vars

\* ---------------------------------------------------------------------
\* The loaded catalog as Python objects: lists and dicts in a heap, which
\* the functions reach by reference
\* ---------------------------------------------------------------------
\* an element of a list or a value of a dict: a text, or the address of
\* another object
TextVal(t) == [ref |-> 0, text |-> t]
RefVal(a) == [ref |-> a, text |-> <<>>]
Texts(ts) == [i \in 1..Len(ts) |-> TextVal(ts[i])]

\* a list has elements only; a dict has keys and, place by place, values.
\* A key is a text: the key "start" is <<"start">>
ListObj(vals) == [kind |-> "list", keys |-> <<>>, vals |-> vals]
DictObj(keys, vals) == [kind |-> "dict", keys |-> keys, vals |-> vals]
EmptyList == ListObj(<<>>)
EmptyDict == DictObj(<<>>, <<>>)

\* a new object, at address Len(h) + 1
Alloc(h, obj) == Append(h, obj)

\* k in d, d[k]
HasKey(h, a, k) == \E i \in 1..Len(h[a].keys) : h[a].keys[i] = k
KeyPos(h, a, k) == CHOOSE i \in 1..Len(h[a].keys) : h[a].keys[i] = k
GetItem(h, a, k) == h[a].vals[KeyPos(h, a, k)]

\* d[k] = v on the dict at address a
SetItem(h, a, k, v) ==
  IF HasKey(h, a, k) THEN [h EXCEPT ![a].vals[KeyPos(h, a, k)] = v]
  ELSE [h EXCEPT ![a].keys = Append(@, k), ![a].vals = Append(@, v)]

\* l.extend(vals), l.append(v) on the list at address a
ListExtend(h, a, vals) == [h EXCEPT ![a].vals = @ \o vals]

\* --- yaml.safe_load: the objects of a catalog -------------------------
\* a dict step -> list of texts, filled into the dict at address d
\* (a heap is never empty: the test h = <<>> has TLC evaluate the heap of
\* each round before the next one, here and below)
RECURSIVE StoreSteps(_, _, _)
StoreSteps(h, steps, d) ==
  IF steps = <<>> \/ h = <<>> THEN h
  ELSE LET h1 == Alloc(h, ListObj(Texts(Head(steps)[2])))
       IN StoreSteps(SetItem(h1, d, <<Head(steps)[1]>>, RefVal(Len(h1))), Tail(steps), d)

\* the reminders or tips of one phase: a list of texts or a dict of lists
StorePayload(h, p) ==
  IF p.flat THEN [h |-> Alloc(h, ListObj(Texts(p.list))), a |-> Len(h) + 1]
  ELSE [h |-> StoreSteps(Alloc(h, EmptyDict), p.steps, Len(h) + 1), a |-> Len(h) + 1]

\* a dict phase -> payload, filled into the dict at address d
RECURSIVE StorePhases(_, _, _)
StorePhases(h, tips, d) ==
  IF tips = <<>> \/ h = <<>> THEN h
  ELSE LET st == StorePayload(h, Head(tips)[2])
       IN StorePhases(SetItem(st.h, d, <<Head(tips)[1]>>, RefVal(st.a)), Tail(tips), d)

\* a unit record {"name": ..., "play_tips": {...}}
StoreUnit(h, u) ==
  LET d == Len(h) + 1
      t == Len(h) + 2
      h1 == Alloc(Alloc(h, DictObj(<<<<"name">>, <<"play_tips">>>>,
                                   <<TextVal(u.name), RefVal(t)>>)),
                  EmptyDict)
  IN [h |-> StorePhases(h1, u.play_tips, t), a |-> d]

\* the unit records, entered in the unit list at address l and in the
\* mapping units_by_key at address m
RECURSIVE StoreUnits(_, _, _, _)
StoreUnits(h, units, l, m) ==
  IF units = <<>> \/ h = <<>> THEN h
  ELSE LET st == StoreUnit(h, Head(units))
           h1 == ListExtend(st.h, l, <<RefVal(st.a)>>)
       IN StoreUnits(SetItem(h1, m, normalize_name(Head(units).name), RefVal(st.a)),
                     Tail(units), l, m)

\* the faction helpers {"turn_start": [...], "generic_reminders": {...}}
StoreHelpers(h, fh) ==
  LET d == Len(h) + 1
      ts == Len(h) + 2
      g == Len(h) + 3
      h1 == Alloc(Alloc(Alloc(h, DictObj(<<<<"turn_start">>, <<"generic_reminders">>>>,
                                         <<RefVal(ts), RefVal(g)>>)),
                        ListObj(Texts(fh.turn_start))),
                  EmptyDict)
  IN [h |-> StorePhases(h1, fh.generic_reminders, g), a |-> d]

\* a timing window {"phase": ..., "step": ..., "player": ...}, with the keys
\* that are set
StoreWindow(h, w) ==
  LET field(k, v) == IF v = None THEN <<>> ELSE <<<<<<k>>, TextVal(<<v[1]>>)>>>>
      fields == field("phase", w.phase) \o field("step", w.step) \o field("player", w.player)
  IN Alloc(h, DictObj([i \in 1..Len(fields) |-> fields[i][1]],
                      [i \in 1..Len(fields) |-> fields[i][2]]))

RECURSIVE StoreWindows(_, _, _)
StoreWindows(h, when, l) ==
  IF when = <<>> \/ h = <<>> THEN h
  ELSE LET h1 == StoreWindow(h, Head(when))
       IN StoreWindows(ListExtend(h1, l, <<RefVal(Len(h1))>>), Tail(when), l)

\* a stratagem record, entered in the stratagem list at address l
StoreStratagem(h, st, l) ==
  LET d == Len(h) + 1
      det == Len(h) + 2
      wl == Len(h) + 3
      h1 == Alloc(Alloc(Alloc(h,
              DictObj(<<<<"name">>, <<"cp">>, <<"effect">>, <<"detachment">>, <<"when">>>>,
                      <<TextVal(st.name), TextVal(<<st.cp>>), TextVal(<<st.effect>>),
                        RefVal(det), RefVal(wl)>>)),
              ListObj([i \in 1..Len(st.detachment) |-> TextVal(<<st.detachment[i]>>)])),
              EmptyList)
  IN ListExtend(StoreWindows(h1, st.when, wl), l, <<RefVal(d)>>)

RECURSIVE StoreStratagems(_, _, _)
StoreStratagems(h, strats, l) ==
  IF strats = <<>> \/ h = <<>> THEN h
  ELSE StoreStratagems(StoreStratagem(h, Head(strats), l), Tail(strats), l)

\* the heap right after load, and the addresses of its roots
LoadHeap(units, fh, strats) ==
  LET h0 == <<EmptyList, EmptyDict, EmptyList>>
      h1 == StoreUnits(h0, units, 1, 2)
      st == StoreHelpers(h1, fh)
  IN [h |-> StoreStratagems(st.h, strats, 3),
      units |-> 1, units_by_key |-> 2, stratagems |-> 3, faction_helpers |-> st.a]

\* --- streamlit_app.collect_phase_tips on the heap ----------------------
\* {s: [] for s in steps.get(phase, [])}, filled into the dict at address d
RECURSIVE NewStepLists(_, _, _)
NewStepLists(h, ss, d) ==
  IF ss = <<>> \/ h = <<>> THEN h
  ELSE LET h1 == Alloc(h, EmptyList)
       IN NewStepLists(SetItem(h1, d, <<Head(ss)>>, RefVal(Len(h1))), Tail(ss), d)

\* for phase in order: result[phase] = {...}
RECURSIVE NewPhaseDicts(_, _, _, _)
NewPhaseDicts(h, order, steps, result) ==
  IF order = <<>> \/ h = <<>> THEN h
  ELSE LET phase == Head(order)
           declared == IF DictHas(steps, phase) THEN DictGet(steps, phase) ELSE <<>>
           h1 == NewStepLists(Alloc(h, EmptyDict), declared, Len(h) + 1)
       IN NewPhaseDicts(SetItem(h1, result, <<phase>>, RefVal(Len(h) + 1)),
                        Tail(order), steps, result)

\* phase in result and stp in result[phase]; the list result[phase][stp]
HasBucket(h, result, phase, stp) ==
  HasKey(h, result, phase) /\ HasKey(h, GetItem(h, result, phase).ref, stp)
BucketAt(h, result, phase, stp) ==
  GetItem(h, GetItem(h, result, phase).ref, stp).ref

\* for stp, msgs in payload.items(): result[phase][stp].extend(msgs)
RECURSIVE ExtendGenericSteps(_, _, _, _, _)
ExtendGenericSteps(h, result, phase, p, i) ==
  IF i > Len(h[p].keys) THEN h
  ELSE LET stp == h[p].keys[i]
           msgs == h[p].vals[i].ref
       IN ExtendGenericSteps(
            IF HasBucket(h, result, phase, stp)
            THEN ListExtend(h, BucketAt(h, result, phase, stp), h[msgs].vals)
            ELSE h,
            result, phase, p, i + 1)

\* variant: the bucket of a flat payload is the payload list itself,
\* result[phase][bucket] = payload
ExtendGenericPhaseAliased(h, result, phase, p) ==
  IF h[p].kind = "list"
  THEN IF HasKey(h, result, phase) /\ h[GetItem(h, result, phase).ref].keys # <<>>
       THEN LET stepLists == GetItem(h, result, phase).ref
                bucket == IF HasKey(h, stepLists, <<"start">>) THEN <<"start">>
                          ELSE h[stepLists].keys[1]
            IN SetItem(h, stepLists, bucket, RefVal(p))
       ELSE h
  ELSE ExtendGenericSteps(h, result, phase, p, 1)

\* one entry of generic_reminders, its payload at address p
ExtendGenericPhase(h, result, phase, p) ==
  IF h[p].kind = "list"
  THEN IF HasKey(h, result, phase) /\ h[GetItem(h, result, phase).ref].keys # <<>>
       THEN LET stepLists == GetItem(h, result, phase).ref
                bucket == IF HasKey(h, stepLists, <<"start">>) THEN <<"start">>
                          ELSE h[stepLists].keys[1]
            IN ListExtend(h, GetItem(h, stepLists, bucket).ref, h[p].vals)
       ELSE h
  ELSE ExtendGenericSteps(h, result, phase, p, 1)

\* for phase, payload in gen.items()
RECURSIVE ExtendGeneric(_, _, _, _)
ExtendGeneric(h, result, gen, i) ==
  IF i > Len(h[gen].keys) THEN h
  ELSE ExtendGeneric(ExtendGenericPhase(h, result, h[gen].keys[i], h[gen].vals[i].ref),
                     result, gen, i + 1)

\* [f"[{name}] {m}" for m in msgs]
PrefixedVals(name, vals) == [i \in 1..Len(vals) |-> TextVal(Prefixed(name, vals[i].text))]

\* for stp, msgs in stepdict.items()
RECURSIVE ExtendUnitSteps(_, _, _, _, _, _)
ExtendUnitSteps(h, result, u, phase, stepdict, i) ==
  IF i > Len(h[stepdict].keys) THEN h
  ELSE LET stp == h[stepdict].keys[i]
           msgs == h[stepdict].vals[i].ref
       IN ExtendUnitSteps(
            IF HasBucket(h, result, phase, stp) /\ h[msgs].vals # <<>>
            THEN ListExtend(h, BucketAt(h, result, phase, stp),
                            PrefixedVals(GetItem(h, u, <<"name">>).text, h[msgs].vals))
            ELSE h,
            result, u, phase, stepdict, i + 1)

\* for phase, stepdict in tips.items(); items() of a list raises
RECURSIVE ExtendUnitPhases(_, _, _, _, _)
ExtendUnitPhases(out, result, u, tips, i) ==
  IF i > Len(out.h[tips].keys) \/ out.raised THEN out
  ELSE LET phase == out.h[tips].keys[i]
           stepdict == out.h[tips].vals[i].ref
       IN IF ~HasKey(out.h, result, phase) THEN ExtendUnitPhases(out, result, u, tips, i + 1)
          ELSE IF out.h[stepdict].kind = "list" THEN [h |-> out.h, raised |-> TRUE]
          ELSE ExtendUnitPhases(
                 [h |-> ExtendUnitSteps(out.h, result, u, phase, stepdict, 1),
                  raised |-> FALSE],
                 result, u, tips, i + 1)

\* for u in selected_units
RECURSIVE ExtendUnits(_, _, _, _)
ExtendUnits(out, result, sel, i) ==
  IF i > Len(sel) \/ out.raised THEN out
  ELSE ExtendUnits(
         ExtendUnitPhases(out, result, sel[i], GetItem(out.h, sel[i], <<"play_tips">>).ref, 1),
         result, sel, i + 1)

\* the heap after collect_phase_tips(phases, faction_helpers, selected_units)
\* on the helpers at address fh and the units at the addresses sel
collect_phase_tips_heap(h, phs, fh, sel) ==
  LET result == Len(h) + 1
      h1 == NewPhaseDicts(Alloc(h, EmptyDict), phs.order, phs.steps, result)
      h2 == ExtendGeneric(h1, result, GetItem(h1, fh, <<"generic_reminders">>).ref, 1)
  IN ExtendUnits([h |-> h2, raised |-> FALSE], result, sel, 1)

\* --- collect_phase_tips_for_unit and build_phase_board on the heap -----
\* for step, arr in sp.items(): for t in arr: bullets.append(f"[{step}] {t}")
RECURSIVE AppendStepBullets(_, _, _, _)
AppendStepBullets(h, bullets, sp, i) ==
  IF i > Len(h[sp].keys) THEN h
  ELSE AppendStepBullets(
         ListExtend(h, bullets, PrefixedVals(h[sp].keys[i], h[h[sp].vals[i].ref].vals)),
         bullets, sp, i + 1)

\* for key, _label in PHASE_ORDER: bullets = [] ... out[key] = bullets
RECURSIVE UnitTipsHeap(_, _, _, _)
UnitTipsHeap(h, tips, out, i) ==
  IF i > Len(PHASE_ORDER) \/ h = <<>> THEN h
  ELSE LET phaseKey == <<PHASE_ORDER[i]>>
           bullets == Len(h) + 1
           h1 == Alloc(h, EmptyList)
           h2 == IF ~HasKey(h1, tips, phaseKey) THEN h1
                 ELSE LET sp == GetItem(h1, tips, phaseKey).ref
                      IN IF h1[sp].kind = "dict" THEN AppendStepBullets(h1, bullets, sp, 1)
                         ELSE ListExtend(h1, bullets, h1[sp].vals)
           h3 == IF h2[bullets].vals # <<>> THEN SetItem(h2, out, phaseKey, RefVal(bullets)) ELSE h2
       IN UnitTipsHeap(h3, tips, out, i + 1)

\* the heap after collect_phase_tips_for_unit(faction_helpers, u), and the
\* address of the dict it returns
collect_phase_tips_for_unit_heap(h, u) ==
  [h |-> UnitTipsHeap(Alloc(h, EmptyDict), GetItem(h, u, <<"play_tips">>).ref, Len(h) + 1, 1),
   a |-> Len(h) + 1]

\* for mu in matched_units: the unit of mu is an address, or 0 for None
RECURSIVE BoardUnitItems(_, _, _, _, _)
BoardUnitItems(h, items, matched, phaseKey, i) ==
  IF i > Len(matched) \/ h = <<>> THEN h
  ELSE IF matched[i] = 0 THEN BoardUnitItems(h, items, matched, phaseKey, i + 1)
  ELSE LET unit_tips == collect_phase_tips_for_unit_heap(h, matched[i])
           uname == GetItem(unit_tips.h, matched[i], <<"name">>).text
           bullets == IF HasKey(unit_tips.h, unit_tips.a, phaseKey)
                      THEN unit_tips.h[GetItem(unit_tips.h, unit_tips.a, phaseKey).ref].vals
                      ELSE <<>>
       IN BoardUnitItems(
            ListExtend(unit_tips.h, items,
                       [j \in 1..Len(bullets) |-> TextVal(uname \o <<" - ">> \o bullets[j].text)]),
            items, matched, phaseKey, i + 1)

\* gen.get(key) or []: the elements of a list, the keys of a dict
GenListHeap(h, gen, phaseKey) ==
  IF ~HasKey(h, gen, phaseKey) THEN <<>>
  ELSE LET p == GetItem(h, gen, phaseKey).ref
       IN IF h[p].kind = "list" THEN h[p].vals
          ELSE [j \in 1..Len(h[p].keys) |-> TextVal(h[p].keys[j])]

\* for idx, (key, label) in enumerate(PHASE_ORDER): items = [] ...
RECURSIVE BoardBoxes(_, _, _, _, _)
BoardBoxes(h, fh, matched, strats, i) ==
  IF i > Len(PHASE_ORDER) \/ h = <<>> THEN h
  ELSE LET phaseKey == <<PHASE_ORDER[i]>>
           items == Len(h) + 1
           h1 == Alloc(h, EmptyList)
           gen_list == GenListHeap(h1, GetItem(h1, fh, <<"generic_reminders">>).ref, phaseKey)
           h2 == IF gen_list # <<>>
                 THEN ListExtend(h1, items, <<TextVal(HeaderItem.text)>> \o gen_list)
                 ELSE h1
           h3 == BoardUnitItems(h2, items, matched, phaseKey, 1)
           h4 == IF HasKey(h3, strats, phaseKey)
                 THEN ListExtend(h3, items, h3[GetItem(h3, strats, phaseKey).ref].vals)
                 ELSE h3
       IN BoardBoxes(h4, fh, matched, strats, i + 1)

\* the heap after build_phase_board(faction_helpers, matched_units, strats);
\* colA and colB are its first two objects
build_phase_board_heap(h, fh, matched, strats) ==
  BoardBoxes(Alloc(Alloc(h, EmptyList), EmptyList), fh, matched, strats, 1)

\* --- strat_items_by_phase on the heap ----------------------------------
\* the timing window at address w, as normalize_timing reads it
WindowOf(h, w) ==
  LET field(k) == IF HasKey(h, w, <<k>>) THEN Some(GetItem(h, w, <<k>>).text[1]) ELSE None
  IN [phase |-> field("phase"), step |-> field("step"), player |-> field("player")]

\* x in st.get("detachment", [])
InList(h, l, x) == \E i \in 1..Len(h[l].vals) : h[l].vals[i].text = x

\* for w in st.get("when", []): bucket[phase].append(line) on a
\* defaultdict(list)
RECURSIVE AppendWindows(_, _, _, _, _)
AppendWindows(out, bucket, st, when, i) ==
  IF i > Len(out.h[when].vals) \/ out.raised THEN out
  ELSE LET t == normalize_timing(WindowOf(out.h, out.h[when].vals[i].ref))
       IN IF t.raised THEN [h |-> out.h, raised |-> TRUE]
          ELSE LET phase == <<t.value.phase>>
                   line == t.value.label \o GetItem(out.h, st, <<"name">>).text
                           \o GetItem(out.h, st, <<"cp">>).text \o <<"CP", "[", t.value.step, "]">>
                           \o GetItem(out.h, st, <<"effect">>).text
                   h1 == IF HasKey(out.h, bucket, phase) THEN out.h
                         ELSE SetItem(Alloc(out.h, EmptyList), bucket, phase,
                                      RefVal(Len(out.h) + 1))
               IN AppendWindows(
                    [h |-> ListExtend(h1, GetItem(h1, bucket, phase).ref, <<TextVal(line)>>),
                     raised |-> FALSE],
                    bucket, st, when, i + 1)

\* for st in strats or []
RECURSIVE AppendStratagems(_, _, _, _, _)
AppendStratagems(out, bucket, strats, detachment_name, i) ==
  IF i > Len(out.h[strats].vals) \/ out.raised THEN out
  ELSE LET st == out.h[strats].vals[i].ref
           det == GetItem(out.h, st, <<"detachment">>).ref
           skipped == /\ detachment_name # None
                      /\ ~InList(out.h, det, <<detachment_name[1]>>)
                      /\ ~InList(out.h, det, <<"All">>)
       IN AppendStratagems(
            IF skipped THEN out
            ELSE AppendWindows(out, bucket, st, GetItem(out.h, st, <<"when">>).ref, 1),
            bucket, strats, detachment_name, i + 1)

\* the heap after strat_items_by_phase(strats, detachment_name) on the list
\* at address strats; the bucket it returns is at address Len(h) + 1
strat_items_by_phase_heap(h, strats, detachment_name) ==
  AppendStratagems([h |-> Alloc(h, EmptyDict), raised |-> FALSE],
                   Len(h) + 1, strats, detachment_name, 1)

\* --- streamlit_app.build_units_index on the heap -----------------------
ALIASES ==
  <<<<<<"a", "s", "s", "a", "u", "l", "t", " ", "i", "n", "t", "e", "r", "c", "e", "s", "s", "o", "r", "s", " ", "w", "i", "t", "h", " ", "j", "u", "m", "p", " ", "p", "a", "c", "k">>,
      <<"A", "s", "s", "a", "u", "l", "t", " ", "I", "n", "t", "e", "r", "c", "e", "s", "s", "o", "r", "s", " ", "w", "i", "t", "h", " ", "J", "u", "m", "p", " ", "P", "a", "c", "k", "s">>>>,
    <<<<"c", "a", "p", "t", "a", "i", "n", " ", "w", "i", "t", "h", " ", "j", "u", "m", "p", " ", "p", "a", "c", "k">>,
      <<"C", "a", "p", "t", "a", "i", "n", " ", "w", "i", "t", "h", " ", "J", "u", "m", "p", " ", "P", "a", "c", "k">>>>,
    <<<<"i", "n", "t", "e", "r", "c", "e", "s", "s", "o", "r", " ", "s", "q", "u", "a", "d">>,
      <<"I", "n", "t", "e", "r", "c", "e", "s", "s", "o", "r", " ", "S", "q", "u", "a", "d">>>>,
    <<<<"b", "l", "a", "d", "e", "g", "u", "a", "r", "d", " ", "v", "e", "t", "e", "r", "a", "n", " ", "s", "q", "u", "a", "d">>,
      <<"B", "l", "a", "d", "e", "g", "u", "a", "r", "d", " ", "V", "e", "t", "e", "r", "a", "n", " ", "S", "q", "u", "a", "d">>>>,
    <<<<"b", "a", "l", "l", "i", "s", "t", "u", "s", " ", "d", "r", "e", "a", "d", "n", "o", "u", "g", "h", "t">>,
      <<"B", "a", "l", "l", "i", "s", "t", "u", "s", " ", "D", "r", "e", "a", "d", "n", "o", "u", "g", "h", "t">>>>,
    <<<<"t", "e", "r", "m", "i", "n", "a", "t", "o", "r", " ", "s", "q", "u", "a", "d">>,
      <<"T", "e", "r", "m", "i", "n", "a", "t", "o", "r", " ", "S", "q", "u", "a", "d">>>>>>

\* idx = {norm(u["name"]): u for u in all_units}
RECURSIVE IndexUnits(_, _, _, _)
IndexUnits(h, idx, all_units, i) ==
  IF i > Len(h[all_units].vals) THEN h
  ELSE LET u == h[all_units].vals[i].ref
       IN IndexUnits(SetItem(h, idx, norm(GetItem(h, u, <<"name">>).text), RefVal(u)),
                     idx, all_units, i + 1)

\* for k, v in ALIASES.items(): idx[k] = idx[norm(v)]
RECURSIVE IndexAliases(_, _, _)
IndexAliases(h, idx, i) ==
  IF i > Len(ALIASES) \/ h = <<>> THEN h
  ELSE LET k == ALIASES[i][1]
           v == ALIASES[i][2]
       IN IndexAliases(
            IF HasKey(h, idx, norm(v)) /\ ~HasKey(h, idx, k)
            THEN SetItem(h, idx, k, GetItem(h, idx, norm(v)))
            ELSE h,
            idx, i + 1)

\* the heap after build_units_index(all_units) on the list at address
\* all_units; the index it returns is at address Len(h) + 1
build_units_index_heap(h, all_units) ==
  IndexAliases(IndexUnits(Alloc(h, EmptyDict), Len(h) + 1, all_units, 1), Len(h) + 1, 1)

\* ---------------------------------------------------------------------
\* Calls against a loaded catalog.  What a call allocates is dropped when
\* it returns: the state keeps the objects of the catalog
\* ---------------------------------------------------------------------
CatalogUnitsPool ==
  {<<>>, <<UnitStepped, UnitFlat>>, <<UnitTwoPhases>>, <<UnitNoTips, UnitStepped>>}
CatalogStratagemsPool == {<<>>, <<StratA, StratAll>>, <<StratSelf>>}
CallPhasesPool ==
  {[order |-> <<>>, steps |-> <<>>],
   [order |-> <<"command">>, steps |-> <<<<"command", <<"start">>>>>>],
   [order |-> <<"command", "movement">>,
    steps |-> <<<<"command", <<"other", "start">>>>, <<"movement", <<"move">>>>>>]}
QueryPool == {<<"a", "b">>, <<"b">>}

\* the addresses of the unit records of the catalog
UnitAddrs == {heap[roots.units].vals[i].ref : i \in 1..Len(heap[roots.units].vals)}

\* the objects of the catalog, as the call left them
Kept(h) == SubSeq(h, 1, Len(heap))

Called(name, raised, h) ==
  Some([name |-> name, raised |-> raised, fresh |-> Len(h) - Len(heap)])

InitFrame ==
  /\ \E units \in CatalogUnitsPool, gen \in GenericPool, strats \in CatalogStratagemsPool :
       LET loaded == LoadHeap(units, [turn_start |-> <<Gen2>>, generic_reminders |-> gen],
                              strats)
       IN /\ heap = loaded.h
          /\ loadedHeap = loaded.h
          /\ roots = [units |-> loaded.units, units_by_key |-> loaded.units_by_key,
                      stratagems |-> loaded.stratagems,
                      faction_helpers |-> loaded.faction_helpers]
  /\ calls = 0
  /\ lastCall = None
  /\ NormIdle
  /\ ParseIdle
  /\ FuzzyIdle
  /\ AggIdle
  /\ RunIdle
  /\ LoadIdle
  /\ StratIdle
  /\ IndexIdle

CallFuzzyFind ==
  /\ calls < MaxCalls
  /\ \E q \in QueryPool :
       LET r == fuzzy_find(q, heap[roots.units_by_key].keys, DefaultCutoff)
       IN lastCall' = Some([name |-> "fuzzy_find", raised |-> FALSE, fresh |-> r.score])
  /\ calls' = calls + 1
  /\ UNCHANGED <<heap, loadedHeap, roots, normVars, parseVars, fuzzyVars, aggVars, runVars,
                 loadVars, stratVars, indexVars>>

CallBuildUnitsIndex ==
  /\ calls < MaxCalls
  /\ LET h == build_units_index_heap(heap, roots.units)
     IN /\ heap' = Kept(h)
        /\ lastCall' = Called("build_units_index", FALSE, h)
  /\ calls' = calls + 1
  /\ UNCHANGED <<loadedHeap, roots, normVars, parseVars, fuzzyVars, aggVars, runVars,
                 loadVars, stratVars, indexVars>>

CallCollectPhaseTips ==
  /\ calls < MaxCalls
  /\ \E phs \in CallPhasesPool, sel \in SeqsUpTo(UnitAddrs, MaxCatalog) :
       LET out == collect_phase_tips_heap(heap, phs, roots.faction_helpers, sel)
       IN /\ heap' = Kept(out.h)
          /\ lastCall' = Called("collect_phase_tips", out.raised, out.h)
  /\ calls' = calls + 1
  /\ UNCHANGED <<loadedHeap, roots, normVars, parseVars, fuzzyVars, aggVars, runVars,
                 loadVars, stratVars, indexVars>>

CallCollectPhaseTipsForUnit ==
  /\ calls < MaxCalls
  /\ \E u \in UnitAddrs :
       LET out == collect_phase_tips_for_unit_heap(heap, u)
       IN /\ heap' = Kept(out.h)
          /\ lastCall' = Called("collect_phase_tips_for_unit", FALSE, out.h)
  /\ calls' = calls + 1
  /\ UNCHANGED <<loadedHeap, roots, normVars, parseVars, fuzzyVars, aggVars, runVars,
                 loadVars, stratVars, indexVars>>

CallStratItemsByPhase ==
  /\ calls < MaxCalls
  /\ \E d \in DetachmentPool :
       LET out == strat_items_by_phase_heap(heap, roots.stratagems, d)
       IN /\ heap' = Kept(out.h)
          /\ lastCall' = Called("strat_items_by_phase", out.raised, out.h)
  /\ calls' = calls + 1
  /\ UNCHANGED <<loadedHeap, roots, normVars, parseVars, fuzzyVars, aggVars, runVars,
                 loadVars, stratVars, indexVars>>

\* as in run: the board is built with the bucket strat_items_by_phase
\* returned for the detachment of the export
CallBuildPhaseBoard ==
  /\ calls < MaxCalls
  /\ \E d \in DetachmentPool, matched \in SeqsUpTo(UnitAddrs \cup {0}, MaxCatalog) :
       LET strats == strat_items_by_phase_heap(heap, roots.stratagems, d)
       IN /\ ~strats.raised
          /\ LET h == build_phase_board_heap(strats.h, roots.faction_helpers, matched,
                                             Len(heap) + 1)
             IN /\ heap' = Kept(h)
                /\ lastCall' = Called("build_phase_board", FALSE, h)
  /\ calls' = calls + 1
  /\ UNCHANGED <<loadedHeap, roots, normVars, parseVars, fuzzyVars, aggVars, runVars,
                 loadVars, stratVars, indexVars>>

NextFrame ==
  \/ CallFuzzyFind
  \/ CallBuildUnitsIndex
  \/ CallCollectPhaseTips
  \/ CallCollectPhaseTipsForUnit
  \/ CallStratItemsByPhase
  \/ CallBuildPhaseBoard

SpecFrame == InitFrame /\ [][NextFrame]_vars

\* ---------------------------------------------------------------------
\* Pipeline: run applied to an export, a YAML directory and its stratagems
\* ---------------------------------------------------------------------
RunTitle == <<"A", "b", " ", "(7 points)">>
RunMeta == {<<>>, <<<<"Gladius Task Force">>>>, <<<<"Anvil Siege Force">>>>}
RunBodyLines ==
  {<<"BATTLELINE">>,
   <<"CHARACTERS">>,
   <<"A", "b", " ", "(7 points)">>,
   <<"a", "'", "B", "(5 points)">>,
   <<"B", " ", "(5 points)">>,
   <<"!", " ", "(5 points)">>}
RunExports ==
  {<<RunTitle>> \o m \o b : m \in RunMeta, b \in SeqsUpTo(RunBodyLines, MaxBodyLines)}

UnitNoName == [name |-> <<>>, play_tips |-> <<>>]
Doc(fh, units) == [faction_helpers |-> fh, units |-> units]
HelpersOfDoc == [turn_start |-> <<>>, generic_reminders |-> <<<<"command", Flat(<<Gen1>>)>>>>]

DocsPool ==
  {<<>>,
   <<Doc(None, <<UnitStepped>>)>>,
   <<Doc(None, <<UnitFlat, UnitTwoPhases>>)>>,
   <<Doc(None, <<UnitNoTips, UnitStepped>>)>>,
   <<Doc(None, <<UnitStepped>>), Doc(Some(HelpersOfDoc), <<UnitFlat>>)>>,
   <<Doc(Some(HelpersOfDoc), <<UnitNoName, UnitNoTips>>)>>}

StratagemsPool ==
  {<<>>, <<StratA>>, <<StratB>>, <<StratA, StratB, StratAll>>,
   <<StratNoDetachment, StratB>>, <<StratAll, StratSelf>>}

InitRun ==
  /\ runExport \in RunExports
  /\ runDocs \in DocsPool
  /\ runStratagems \in StratagemsPool
  /\ runOut = None
  /\ NormIdle
  /\ ParseIdle
  /\ FuzzyIdle
  /\ AggIdle
  /\ LoadIdle
  /\ StratIdle
  /\ IndexIdle
  /\ FrameIdle

Run ==
  /\ runOut = None
  /\ runOut' = Some(run(runExport, runDocs, runStratagems))
  /\ UNCHANGED <<runExport, runDocs, runStratagems,
                 normVars, parseVars, fuzzyVars, aggVars, loadVars, stratVars, indexVars, frameVars>>

NextRun == Run

SpecRun == InitRun /\ [][NextRun]_vars

\* =====================================================================
\* Properties
\* =====================================================================

\* C1: normalize_name is idempotent: normalising a key that normalize_name
\* returned gives that key again.
NormalizeIdempotent == rekey # None => rekey = key

\* a raw name that normalisation changes, to a non-empty key, normalised twice
NormalizeIdempotentWitness ==
  /\ rekey # None
  /\ key[1] # raw
  /\ key[1] # <<>>
  /\ \E i \in 1..Len(raw) : raw[i] \in Apostrophes

UnitLineIdx(text) ==
  {i \in 2..Len(text) :
     LET s == Strip(text[i])
     IN IsUnitLine(s) /\ ~IsFormat(s)}

KeyAt(text, i) == normalize_name(UnitName(Strip(text[i])))

SameKeyIdx(text, k) == {i \in UnitLineIdx(text) : KeyAt(text, i) = k}

\* C3: parse_export_txt aggregates counts: the n >= 1 unit lines whose names
\* have one normalized key make exactly one entry of the mapping, with
\* count n and with the display name and point cost of the first of them;
\* the mapping has no other entries and every count is at least 1.
ParseCountAggregating ==
  parsed # None =>
    LET us == parsed[1].units
    IN /\ {us[n].key : n \in 1..Len(us)} = {KeyAt(export, i) : i \in UnitLineIdx(export)}
       /\ \A m, n \in 1..Len(us) : us[m].key = us[n].key => m = n
       /\ \A n \in 1..Len(us) :
            LET same == SameKeyIdx(export, us[n].key)
                first == Strip(export[MinOf(same)])
            IN /\ us[n].count = Cardinality(same)
               /\ us[n].count >= 1
               /\ us[n].display = UnitName(first)
               /\ us[n].points_each = UnitPoints(first)

\* after a title line, two unit lines of one key, spelled differently and
\* with different costs
ParseCountAggregatingWitness ==
  /\ parsed # None
  /\ export # <<>>
  /\ Strip(export[1]) # <<>>
  /\ \E i, j \in UnitLineIdx(export) :
       /\ i < j
       /\ KeyAt(export, i) = KeyAt(export, j)
       /\ UnitName(Strip(export[i])) # UnitName(Strip(export[j]))
       /\ UnitPoints(Strip(export[i])) # UnitPoints(Strip(export[j]))
  /\ \E n \in 1..Len(parsed[1].units) : parsed[1].units[n].count >= 2

ParseEmptyExportReached == parsed # None /\ export = <<>>

FirstNonEmpty(text) ==
  IF \E i \in 1..Len(text) : Strip(text[i]) # <<>>
  THEN MinOf({i \in 1..Len(text) : Strip(text[i]) # <<>>})
  ELSE 0

\* a line without its trailing "(<N> points)"
WithoutPointsSuffix(s) ==
  IF s # <<>> /\ s[Len(s)] \in PointsSuffixes
  THEN Strip(SubSeq(s, 1, Len(s) - 1))
  ELSE s

TrailingPoints(s) ==
  IF s # <<>> /\ s[Len(s)] \in PointsSuffixes THEN Some(PointsOf(s[Len(s)])) ELSE None

RECURSIVE SumCounts(_)
SumCounts(us) == IF us = <<>> THEN 0 ELSE Head(us).count + SumCounts(Tail(us))

\* C10: the first non-empty line of the export is the list title, also when
\* blank lines precede it: the title is that line without its trailing
\* "(<N> points)", N is the point total, and the line makes no unit entry.
ParseTitleIsFirstNonEmptyLine ==
  parsed # None =>
    LET f == FirstNonEmpty(export)
    IN f # 0 =>
         LET s == Strip(export[f])
         IN /\ parsed[1].army.title = Some(WithoutPointsSuffix(s))
            /\ parsed[1].army.points_total = TrailingPoints(s)
            /\ SumCounts(parsed[1].units)
                 = Cardinality({i \in 1..Len(export) :
                                  /\ i # f
                                  /\ IsUnitLine(Strip(export[i]))
                                  /\ ~IsFormat(Strip(export[i]))})

KeySet == {choices[i] : i \in 1..Len(choices)}

\* r1 >= r2 for two ratios
RatioGeq(r1, r2) == ~RatioLess(r1, r2)

\* the similarity of the query to each key of the catalog
Similarity == [k \in KeySet |-> Ratio(k, query)]

\* the keys of the catalog that reach the cutoff
CloseKeys == {k \in KeySet : RatioAtLeast(Similarity[k], cutoff)}

\* the close keys of maximal similarity
BestKeys ==
  LET sim == Similarity
      close == {k \in KeySet : RatioAtLeast(sim[k], cutoff)}
  IN {k \in close : \A j \in close : RatioGeq(sim[k], sim[j])}

\* C5: fuzzy_find has three outcomes: a key of the catalog is returned with
\* confidence 1.0 whatever the cutoff; otherwise, when some key of the catalog
\* has similarity >= cutoff, a key of maximal similarity is returned with
\* confidence 0.9; otherwise (None, 0.0).  The matched key is None exactly
\* when the confidence is 0.0, and a matched key is a key of the catalog.
FuzzyThreeOutcomes ==
  found # None =>
    LET r == found[1]
    IN /\ query \in KeySet => r = [mkey |-> Some(query), score |-> 100]
       /\ (query \notin KeySet /\ CloseKeys # {}) =>
            /\ r.score = 90
            /\ r.mkey # None
            /\ r.mkey[1] \in BestKeys
       /\ (query \notin KeySet /\ CloseKeys = {}) => r = [mkey |-> None, score |-> 0]
       /\ r.mkey = None <=> r.score = 0
       /\ r.mkey # None => r.mkey[1] \in KeySet

\* an approximate match where a key reaches a cutoff above 0 without being
\* the best
FuzzyThreeOutcomesWitness ==
  /\ found # None
  /\ found[1].score = 90
  /\ cutoff > 0
  /\ CloseKeys # BestKeys

\* an exact match at the strictest cutoff and a miss at the default cutoff
FuzzyExactWitness == found # None /\ found[1].score = 100 /\ cutoff = 100 /\ Len(choices) = 2
FuzzyMissWitness == found # None /\ found[1].score = 0 /\ cutoff = DefaultCutoff /\ Len(choices) = 2

StrLeq(x, y) == x = y \/ StrLess(x, y)

\* C6: fuzzy_find is deterministic with stable tie-breaking: the result does
\* not depend on the insertion order of the catalog, and of several keys that
\* tie on the best similarity the lexicographically first is returned.
FuzzyTieLexicographicallyFirst ==
  found # None =>
    /\ found[1] = fuzzy_find(query, choices, cutoff)
    /\ found[1].score = 90 => \A k \in BestKeys : StrLeq(found[1].mkey[1], k)

\* what the resolver does on a tie: the result does not depend on the
\* insertion order of the catalog, and of several keys that tie on the best
\* similarity the lexicographically last is returned (heapq.nlargest orders
\* the (score, key) pairs)
FuzzyTieLexicographicallyLast ==
  found # None =>
    /\ found[1] = fuzzy_find(query, choices, cutoff)
    /\ found[1].score = 90 => \A k \in BestKeys : StrLeq(k, found[1].mkey[1])

\* two keys tie on the best similarity, at a cutoff above 0, and the catalog
\* is now in another insertion order than the one it was resolved with
FuzzyTieWitness ==
  /\ found # None
  /\ found[1].score = 90
  /\ cutoff > 0
  /\ Cardinality(BestKeys) >= 2
  /\ choices # foundFor

SeqRange(s) == {s[i] : i \in 1..Len(s)}

\* the steps the phase definition declares for phase p
DeclaredSteps(p) ==
  IF DictHas(phases.steps, p) THEN SeqRange(DictGet(phases.steps, p)) ELSE {}

\* result has the declared phases and steps as keys, and no other
TipsShapeComplete(result) ==
  /\ SeqRange(DictKeys(result)) = SeqRange(phases.order)
  /\ \A p \in SeqRange(phases.order) :
       SeqRange(DictKeys(DictGet(result, p))) = DeclaredSteps(p)

Boxes(board) == board.colA \o board.colB

\* neither a generic reminder, nor a tip of a resolved unit, nor a stratagem
\* item for phase k
NoContribution(k) ==
  /\ GenericList(helpers.generic_reminders, k) = <<>>
  /\ \A i \in 1..Len(selected) :
       selected[i].unit # None => UnitBullets(selected[i].unit[1], k) = <<>>
  /\ DictHas(buckets, k) => DictGet(buckets, k) = <<>>

\* one box per phase of PHASE_ORDER, in that order, never empty, and made of
\* the placeholder alone exactly when the phase has no contribution
BoardComplete(board) ==
  /\ Len(board.colA) = 3 /\ Len(board.colB) = 3
  /\ [i \in 1..6 |-> Boxes(board)[i].phase] = PHASE_ORDER
  /\ \A i \in 1..6 :
       /\ Boxes(board)[i].items # <<>>
       /\ NoContribution(PHASE_ORDER[i]) <=> Boxes(board)[i].items = <<alt_item>>
       /\ ~NoContribution(PHASE_ORDER[i]) =>
            \A j \in 1..Len(Boxes(board)[i].items) : Boxes(board)[i].items[j] # alt_item

\* C7: for any phase definition, faction helpers and selected units,
\* collect_phase_tips returns a result with an entry for every phase of the
\* order and every step declared for it, and no other key, and
\* build_phase_board emits the six boxes, with the placeholder where a phase
\* has no contribution.
AggregatorComplete ==
  /\ tipsOut # None => ~tipsOut[1].raised /\ TipsShapeComplete(tipsOut[1].value)
  /\ boardOut # None => BoardComplete(boardOut[1])

\* what holds of the aggregators: the shape of every result that
\* collect_phase_tips returns, and of every board
AggregatorCompleteWhenReturned ==
  /\ tipsOut # None /\ ~tipsOut[1].raised => TipsShapeComplete(tipsOut[1].value)
  /\ boardOut # None => BoardComplete(boardOut[1])

\* collect_phase_tips returned for a definition with two phases and three
\* steps, and the board has a placeholder box and a filled one
AggregatorCompleteReached ==
  /\ tipsOut # None /\ ~tipsOut[1].raised
  /\ Len(phases.order) = 2
  /\ Cardinality(DeclaredSteps("command")) = 2
  /\ selected # <<>>
  /\ boardOut # None
  /\ \E i, j \in 1..6 :
       /\ Boxes(boardOut[1])[i].items = <<alt_item>>
       /\ Len(Boxes(boardOut[1])[j].items) >= 2

\* the items stratagem st contributed to the buckets
ItemsOf(st, strats) ==
  UNION {{<<p, j>> : j \in {j \in 1..Len(strats[p][2]) : strats[p][2][j].who = st.name}} :
           p \in 1..Len(strats)}

\* st lists neither the detachment d (unset or set) nor the wildcard
ListsNeither(st, d) ==
  /\ d = None \/ ~InSeq(d[1], st.detachment)
  /\ ~InSeq("All", st.detachment)

CloseTo(k, units_by_key) ==
  {c \in SeqRange(DictKeys(units_by_key)) : RatioAtLeast(Ratio(c, k), DefaultCutoff)}

\* the export without the unit lines whose key has no match in the catalog
ResolvedLinesOnly(text, units_by_key) ==
  SelectSeq(text, LAMBDA l :
    LET s == Strip(l)
    IN IsUnitLine(s) =>
         LET k == normalize_name(UnitName(s))
         IN DictHas(units_by_key, k) \/ CloseTo(k, units_by_key) # {})

\* C9: run builds one matched record per entry of the parsed mapping, with
\* the entry's display name, count, points_each and section; a record whose
\* key has no exact or approximate match has unit None and score 0.0, every
\* other record has the catalog entry of the matched key and score 1.0 or
\* 0.9; the unresolved records change no other record.
UnresolvedUnitsKept ==
  runOut # None /\ ~runOut[1].raised =>
    LET out == runOut[1].value
        cat == out.units_by_key
        mine == {n \in 1..Len(out.matched) : out.matched[n].unit # None}
        alone == run(ResolvedLinesOnly(runExport, cat), runDocs, runStratagems).value
    IN /\ Len(out.matched) = Len(out.listed)
       /\ \A i \in 1..Len(out.listed) :
            \E n \in 1..Len(out.matched) :
              /\ out.matched[n].query_key = out.listed[i].key
              /\ out.matched[n].display = out.listed[i].display
              /\ out.matched[n].count = out.listed[i].count
              /\ out.matched[n].points_each = out.listed[i].points_each
              /\ out.matched[n].section = GetOr(out.listed[i].section, <<>>)
       /\ \A n \in 1..Len(out.matched) :
            LET r == out.matched[n]
            IN IF DictHas(cat, r.query_key)
               THEN r.unit = Some(DictGet(cat, r.query_key)) /\ r.match_score = 100
               ELSE IF CloseTo(r.query_key, cat) # {}
               THEN /\ r.match_score = 90
                    /\ \E c \in CloseTo(r.query_key, cat) : r.unit = Some(DictGet(cat, c))
               ELSE r.unit = None /\ r.match_score = 0
       /\ \A n \in mine : \E m \in 1..Len(alone.matched) : alone.matched[m] = out.matched[n]

\* what holds of run: the records of the claim, but for an entry whose key is
\* the empty string while the catalog has the empty key, which gets no unit
\* with score 1.0
UnresolvedUnitsKeptButEmptyKey ==
  runOut # None /\ ~runOut[1].raised =>
    LET out == runOut[1].value
        cat == out.units_by_key
    IN /\ Len(out.matched) = Len(out.listed)
       /\ \A n \in 1..Len(out.matched) :
            LET r == out.matched[n]
            IN IF DictHas(cat, r.query_key)
               THEN /\ r.match_score = 100
                    /\ r.unit = IF r.query_key = <<>> THEN None
                                ELSE Some(DictGet(cat, r.query_key))
               ELSE IF CloseTo(r.query_key, cat) # {}
               THEN /\ r.match_score = 90
                    /\ \E c \in CloseTo(r.query_key, cat) : r.unit = Some(DictGet(cat, c))
               ELSE r.unit = None /\ r.match_score = 0

\* run returned records of the three kinds: exact, approximate, unresolved
RunThreeKindsReached ==
  /\ runOut # None /\ ~runOut[1].raised
  /\ \E a, b \in 1..Len(runOut[1].value.matched) :
       /\ runOut[1].value.matched[a].match_score = 90
       /\ runOut[1].value.matched[b].match_score = 0

\* the lines SECTION_RE matches
HeaderIdx(text) == {i \in 1..Len(text) : IsSection(Strip(text[i]))}

\* the section header in force at line i: the last one before it
SectionBefore(text, i) ==
  LET hs == {h \in HeaderIdx(text) : h < i}
  IN IF hs = {} THEN None ELSE Some(Strip(text[MaxOf(hs)]))

\* a line made only of upper-case letters and separators, with a letter
MadeOfUpperAndSeparators(s) ==
  /\ \A i \in 1..Len(s) : s[i] \in SectionSyms \cup SectionWords
  /\ \E i \in 1..Len(s) : s[i] \in AsciiUpper \cup SectionWords

UpperLineIdx(text) ==
  {i \in 1..Len(text) : MadeOfUpperAndSeparators(Strip(text[i]))}

UpperLineBefore(text, i) ==
  LET hs == {h \in UpperLineIdx(text) : h < i}
  IN IF hs = {} THEN None ELSE Some(Strip(text[MaxOf(hs)]))

\* C11: every line made only of upper-case letters and separators is a
\* section header and creates no unit, and the section of every unit entry
\* is the last such line before the first occurrence of the unit (unset when
\* there is none), whatever headers and occurrences follow.
SectionIsLastUpperLine ==
  parsed # None =>
    LET us == parsed[1].units
    IN /\ UpperLineIdx(export) \cap UnitLineIdx(export) = {}
       /\ {us[n].key : n \in 1..Len(us)} = {KeyAt(export, i) : i \in UnitLineIdx(export)}
       /\ \A n \in 1..Len(us) :
            us[n].section = UpperLineBefore(export, MinOf(SameKeyIdx(export, us[n].key)))

\* C11 as amended: a line of two characters or more that starts with an
\* upper-case ASCII letter and goes on with upper-case ASCII letters and
\* separators only is a section header and creates no unit, and the section
\* of every unit entry is the last such header before the first occurrence of
\* the unit (unset when there is none), whatever headers and occurrences
\* follow.
SectionIsLastHeader ==
  parsed # None =>
    LET us == parsed[1].units
    IN /\ HeaderIdx(export) \cap UnitLineIdx(export) = {}
       /\ {us[n].key : n \in 1..Len(us)} = {KeyAt(export, i) : i \in UnitLineIdx(export)}
       /\ \A n \in 1..Len(us) :
            us[n].section = SectionBefore(export, MinOf(SameKeyIdx(export, us[n].key)))

\* a header, a unit, another header and the same unit again: the entry keeps
\* the first header
SectionIsLastHeaderWitness ==
  /\ parsed # None
  /\ Len(export) = 4
  /\ HeaderIdx(export) = {1, 3}
  /\ Strip(export[1]) # Strip(export[3])
  /\ UnitLineIdx(export) = {2, 4}
  /\ KeyAt(export, 2) = KeyAt(export, 4)
  /\ Len(parsed[1].units) = 1
  /\ parsed[1].units[1].section = Some(Strip(export[1]))

\* the unit records of the directory that have a name, as <<file, index>>
NamedRecords ==
  {<<f, i>> \in (1..Len(listing)) \X (1..2) :
     i <= Len(listing[f].data.units) /\ listing[f].data.units[i].name # <<>>}

RecordAt(r) == listing[r[1]].data.units[r[2]]
RecordKey(r) == normalize_name(RecordAt(r).name)

\* record r is processed before record q: its file has the lesser path, or
\* it comes first in the same file
ProcessedBefore(r, q) ==
  \/ StrLess(listing[r[1]].path, listing[q[1]].path)
  \/ r[1] = q[1] /\ r[2] < q[2]

\* C12: the catalog has exactly the normalized keys of the named unit
\* records of the directory, and the entry of a key is the record of that
\* key processed last, the documents taken in lexicographic order of their
\* paths (last-file-wins).
CatalogLastFileWins ==
  catalog # None =>
    LET cat == catalog[1].units_by_key
    IN /\ SeqRange(DictKeys(cat)) = {RecordKey(r) : r \in NamedRecords}
       /\ \A m, n \in 1..Len(cat) : cat[m][1] = cat[n][1] => m = n
       /\ \A r \in NamedRecords :
            (\A q \in NamedRecords : RecordKey(q) = RecordKey(r) => q = r \/ ProcessedBefore(q, r))
              => DictGet(cat, RecordKey(r)) = RecordAt(r)

\* two files listed against the order of their paths hold different records
\* of one key
CatalogLastFileWinsWitness ==
  /\ catalog # None
  /\ Len(listing) = 2
  /\ StrLess(listing[2].path, listing[1].path)
  /\ \E r, q \in NamedRecords :
       /\ r[1] = 1 /\ q[1] = 2
       /\ RecordKey(r) = RecordKey(q)
       /\ RecordAt(r) # RecordAt(q)
       /\ DictGet(catalog[1].units_by_key, RecordKey(r)) = RecordAt(r)

\* the files that hold a faction_helpers block
HelperFiles == {f \in 1..Len(listing) : listing[f].data.faction_helpers # None}

\* C13: the faction helpers returned are the block of the file with the
\* least path among those that hold one; without any, they are the built-in
\* default set, which has a reminder list for each of the six phases; None
\* is never returned.
HelpersFirstSeen ==
  catalog # None =>
    /\ catalog[1].faction_helpers # None
    /\ \A f \in HelperFiles :
         (\A g \in HelperFiles : g = f \/ StrLess(listing[f].path, listing[g].path))
           => catalog[1].faction_helpers = listing[f].data.faction_helpers[1]
    /\ HelperFiles = {} =>
         /\ catalog[1].faction_helpers = DefaultHelpers
         /\ DictKeys(catalog[1].faction_helpers.generic_reminders) = PHASE_ORDER
         /\ \A i \in 1..Len(PHASE_ORDER) :
              LET p == catalog[1].faction_helpers.generic_reminders[i][2]
              IN p.flat /\ p.list # <<>>

\* two files hold different blocks, and the one listed second has the lesser
\* path
HelpersFirstSeenWitness ==
  /\ catalog # None
  /\ HelperFiles = {1, 2}
  /\ StrLess(listing[2].path, listing[1].path)
  /\ listing[1].data.faction_helpers # listing[2].data.faction_helpers
  /\ catalog[1].faction_helpers = listing[2].data.faction_helpers[1]

\* no file holds a block and the default set is returned
HelpersDefaultReached ==
  catalog # None /\ listing # <<>> /\ HelperFiles = {} /\ catalog[1].faction_helpers = DefaultHelpers

\* the place of an item in the priority order of a bucket
KindRank(item) ==
  CASE item.kind \in {"header", "generic"} -> 1
    [] item.kind = "tip" -> 2
    [] item.kind = "strat" -> 3
    [] OTHER -> 0

\* how many tips the matched unit at position m has for phase k
TipCount(m, k) ==
  IF selected[m].unit = None THEN 0 ELSE Len(UnitBullets(selected[m].unit[1], k))

RECURSIVE TipsBefore(_, _)
TipsBefore(m, k) == IF m <= 1 THEN 0 ELSE TipsBefore(m - 1, k) + TipCount(m - 1, k)

\* the texts of the generic reminders of the faction helpers
GenericTexts ==
  UNION {LET p == helpers.generic_reminders[i][2]
         IN SeqRange(p.list) \cup UNION {SeqRange(p.steps[j][2]) : j \in 1..Len(p.steps)} :
         i \in 1..Len(helpers.generic_reminders)}

\* a message collect_phase_tips made of a unit tip: "[name] tip"
IsUnitTip(x) == x # <<>> /\ x[1] = "["

\* the (phase, step) buckets of a result of collect_phase_tips
BucketsOf(result) ==
  {result[p][2][q][2] : <<p, q>> \in
     UNION {{<<p, q>> : q \in 1..Len(result[p][2])} : p \in 1..Len(result)}}

\* in the bucket the items of the generic reminders come first, then the
\* tips of the units, then the stratagem items
BoxInPriorityOrder(box) ==
  \A i, j \in 1..Len(box.items) :
    i < j => KindRank(box.items[i]) <= KindRank(box.items[j])

\* the tips of the box are those of the matched units, unit after unit in
\* the order of the matched units
BoxTipsInUnitOrder(box) ==
  LET g == Cardinality({i \in 1..Len(box.items) : KindRank(box.items[i]) <= 1})
  IN /\ Cardinality({i \in 1..Len(box.items) : box.items[i].kind = "tip"})
          = TipsBefore(Len(selected) + 1, box.phase)
     /\ \A m \in 1..Len(selected) : \A j \in 1..TipCount(m, box.phase) :
          LET item == box.items[g + TipsBefore(m, box.phase) + j]
          IN /\ item.kind = "tip"
             /\ item.who = selected[m].unit[1].name
             /\ item.text = UnitBullets(selected[m].unit[1], box.phase)[j]

\* C14: in every phase bucket of build_phase_board the generic reminders
\* come before the per-unit tips, which come before the stratagem items,
\* and the per-unit tips follow the order of the matched units; in every
\* (phase, step) bucket of collect_phase_tips the generic reminders come
\* before the per-unit tips.
BucketPriorityOrder ==
  /\ boardOut # None =>
       \A b \in 1..6 :
         /\ BoxInPriorityOrder(Boxes(boardOut[1])[b])
         /\ BoxTipsInUnitOrder(Boxes(boardOut[1])[b])
  /\ (tipsOut # None /\ ~tipsOut[1].raised) =>
       \A bucket \in BucketsOf(tipsOut[1].value) :
         \A i, j \in 1..Len(bucket) :
           i < j => ~(IsUnitTip(bucket[i]) /\ bucket[j] \in GenericTexts)

\* a phase bucket of the board holds generic reminders, the tips of two
\* different units and a stratagem item
BucketPriorityOrderWitness ==
  /\ boardOut # None
  /\ Len(selected) = 2
  /\ selected[1].unit # None /\ selected[2].unit # None
  /\ selected[1].unit # selected[2].unit
  /\ \E b \in 1..6 :
       LET box == Boxes(boardOut[1])[b]
       IN /\ TipCount(1, box.phase) > 0 /\ TipCount(2, box.phase) > 0
          /\ \E i, j \in 1..Len(box.items) :
               box.items[i].kind = "generic" /\ box.items[j].kind = "strat"

\* a (phase, step) bucket of collect_phase_tips holds a generic reminder and
\* a unit tip
StepBucketPriorityReached ==
  /\ tipsOut # None
  /\ ~tipsOut[1].raised
  /\ \E bucket \in BucketsOf(tipsOut[1].value) :
       \E i, j \in 1..Len(bucket) : bucket[i] \in GenericTexts /\ IsUnitTip(bucket[j])

\* the tip items of a box
TipIdx(box) == {i \in 1..Len(box.items) : box.items[i].kind = "tip"}

\* the places in the box of the tips of the matched unit at position m
TipIdxOf(box, m) ==
  LET g == Cardinality({i \in 1..Len(box.items) : KindRank(box.items[i]) <= 1})
  IN {g + TipsBefore(m, box.phase) + j : j \in 1..TipCount(m, box.phase)}

\* every tip of a box is a tip of a resolved matched unit
OnlyResolvedUnitsContribute(box) ==
  TipIdx(box) = UNION {TipIdxOf(box, m) : m \in {m \in 1..Len(selected) : selected[m].unit # None}}

\* C15 as stated: an unresolved matched unit contributes no item to any
\* phase bucket of build_phase_board, and every tip of a resolved unit is
\* prefixed with the display name of the unit, as it appeared in the export.
TipsCarryDisplayName ==
  boardOut # None =>
    \A b \in 1..6 :
      LET box == Boxes(boardOut[1])[b]
      IN /\ OnlyResolvedUnitsContribute(box)
         /\ \A m \in 1..Len(selected) : \A i \in TipIdxOf(box, m) :
              box.items[i].who = selected[m].display

\* C15 amended: an unresolved matched unit contributes no item to any phase
\* bucket of build_phase_board, and every tip of a resolved unit is prefixed
\* with the name of its catalog entry.
TipsCarryCatalogName ==
  boardOut # None =>
    \A b \in 1..6 :
      LET box == Boxes(boardOut[1])[b]
      IN /\ OnlyResolvedUnitsContribute(box)
         /\ \A m \in 1..Len(selected) : \A i \in TipIdxOf(box, m) :
              box.items[i].who = selected[m].unit[1].name

\* the board of an unresolved unit and of a unit resolved by approximate
\* match to a catalog entry of another name, which has tips
TipsCarryCatalogNameWitness ==
  /\ boardOut # None
  /\ \E m, n \in 1..Len(selected) :
       /\ selected[m].unit = None
       /\ selected[n].unit # None
       /\ selected[n].match_score = 90
       /\ selected[n].unit[1].name # selected[n].display
       /\ \E b \in 1..6 : TipIdxOf(Boxes(boardOut[1])[b], n) # {}

\* the timing windows strat_items_by_phase goes through: <<i, j>> is window
\* j of the stratagem at position i, which the detachment filter keeps
Windows ==
  UNION {{<<i, j>> : j \in 1..Len(stratList[i].when)} :
           i \in {i \in 1..Len(stratList) : ~SkipsStratagem(stratList[i], stratDetachment)}}

WindowAt(w) == stratList[w[1]].when[w[2]]

\* the actor of a window; a window without actor is the player's
ActorOf(w, player) == IF WindowAt(w).player = None THEN player ELSE WindowAt(w).player[1]

\* the items of the stratagem called name that carry the prefix: <<p, j>> is
\* item j of the bucket at position p
ItemsWith(strats, name, prefix) ==
  UNION {{<<p, j>> : j \in {j \in 1..Len(strats[p][2]) :
                              /\ strats[p][2][j].who = name
                              /\ strats[p][2][j].text[1] = prefix}} :
           p \in 1..Len(strats)}

\* C16 as stated: when the actor of every timing window is one of self,
\* opponent, either of the data model, or absent, strat_items_by_phase
\* returns, with one item per timing window of every applicable stratagem.
DataModelActorsAccepted ==
  (/\ stratOut # None
   /\ \A w \in Windows : ActorOf(w, "self") \in {"self", "opponent", "either"})
    => /\ ~stratOut[1].raised
       /\ \A i \in 1..Len(stratList) :
            Cardinality(ItemsOf(stratList[i], stratOut[1].value))
              = Cardinality({w \in Windows : stratList[w[1]].name = stratList[i].name})

\* C16 amended: when the actor of every timing window is one of you,
\* opponent, any, or absent, strat_items_by_phase returns, with one item
\* per timing window of every applicable stratagem, in the bucket of the
\* window's phase; the item carries the prefix of the window's actor, an
\* absent actor being the player (you), and the three prefixes differ.
CodeActorsAccepted ==
  (/\ stratOut # None
   /\ \A w \in Windows : ActorOf(w, "you") \in {"you", "opponent", "any"})
    => /\ ~stratOut[1].raised
       /\ \A i \in 1..Len(stratList) :
            /\ Cardinality(ItemsOf(stratList[i], stratOut[1].value))
                 = Cardinality({w \in Windows : stratList[w[1]].name = stratList[i].name})
            /\ \A a \in {"you", "opponent", "any"} :
                 Cardinality(ItemsWith(stratOut[1].value, stratList[i].name, PlayerPrefix(a)))
                   = Cardinality({w \in Windows : /\ stratList[w[1]].name = stratList[i].name
                                                  /\ ActorOf(w, "you") = a})
       /\ \A a, b \in {"you", "opponent", "any"} : PlayerPrefix(a) = PlayerPrefix(b) => a = b

\* a list whose applicable windows name the player, the opponent, both and
\* no actor, has been turned into items
CodeActorsAcceptedWitness ==
  /\ stratOut # None
  /\ ~stratOut[1].raised
  /\ {ActorOf(w, "none") : w \in Windows} = {"you", "opponent", "any", "none"}
  /\ \E i \in 1..Len(stratList) : SkipsStratagem(stratList[i], stratDetachment)

\* the tips of unit u for phase k, whatever their shape
TipsOfUnit(u, k) ==
  IF ~DictHas(u.play_tips, k) THEN {}
  ELSE LET sp == DictGet(u.play_tips, k)
       IN SeqRange(sp.list) \cup UNION {SeqRange(sp.steps[j][2]) : j \in 1..Len(sp.steps)}

\* the resolved units of the list
ResolvedUnits == {selected[m].unit[1] : m \in {m \in 1..Len(selected) : selected[m].unit # None}}

\* the messages of all the steps of phase k in a result of collect_phase_tips
MessagesOf(result, k) ==
  UNION {SeqRange(DictGet(result, k)[q][2]) : q \in 1..Len(DictGet(result, k))}

\* every tip of every resolved unit is in the box of its phase, after the
\* name of the unit and, for a step-keyed tip, after the name of its step
BoardHasEveryTip(board) ==
  \A u \in ResolvedUnits : \A b \in 1..6 :
    LET box == Boxes(board)[b]
    IN \A t \in TipsOfUnit(u, box.phase) :
         \E i \in 1..Len(box.items) :
           /\ box.items[i].kind = "tip"
           /\ box.items[i].who = u.name
           /\ Len(box.items[i].text) >= Len(t)
           /\ SubSeq(box.items[i].text, Len(box.items[i].text) - Len(t) + 1,
                     Len(box.items[i].text)) = t

\* every tip of every resolved unit for a declared phase is among the
\* messages of that phase, after the name of the unit
TipsHaveEveryTip(result) ==
  \A u \in ResolvedUnits : \A k \in SeqRange(phases.order) :
    \A t \in TipsOfUnit(u, k) : Prefixed(u.name, t) \in MessagesOf(result, k)

\* C18: for resolved units with flat-list tips and with step-keyed tips,
\* build_phase_board and collect_phase_tips complete without error and
\* every tip of a unit for a phase appears in the output of that phase.
BothShapesAggregated ==
  /\ boardOut # None => BoardHasEveryTip(boardOut[1])
  /\ tipsOut # None => ~tipsOut[1].raised /\ TipsHaveEveryTip(tipsOut[1].value)

\* the part of C18 about collect_phase_tips_for_unit and build_phase_board
BoardAggregatesBothShapes ==
  boardOut # None => BoardHasEveryTip(boardOut[1])

\* collect_phase_tips returns for units whose tips are all step-keyed
TipsReturnedForSteppedUnits ==
  (/\ tipsOut # None
   /\ \A u \in ResolvedUnits : \A i \in 1..Len(u.play_tips) : ~u.play_tips[i][2].flat)
    => ~tipsOut[1].raised

\* a board made for a unit with flat tips and a unit with step-keyed tips
BothShapesReached ==
  /\ boardOut # None
  /\ \E u, v \in ResolvedUnits : \E k \in SeqRange(PHASE_ORDER) :
       /\ DictHas(u.play_tips, k) /\ DictGet(u.play_tips, k).flat
       /\ DictHas(v.play_tips, k) /\ ~DictGet(v.play_tips, k).flat
       /\ TipsOfUnit(u, k) # {} /\ TipsOfUnit(v, k) # {}

\* C19: norm is idempotent: the key norm gives for a unit name is left as
\* it is by norm, so a lookup through norm of a stored key asks for that
\* key.
NormIdempotent ==
  lookedUp # None => lookedUp[1] = stored[1]

\* norm leaves the key of a name without line feed, without the plural
\* "packs" and without "w/" as it is
NormIdempotentOnPlainNames ==
  (/\ lookedUp # None
   /\ \A i \in 1..Len(label) : label[i] \notin {"\n", "s", "/"})
    => lookedUp[1] = stored[1]

\* a key has been stored and looked up, and norm changed it
NormChangesStoredKey ==
  lookedUp # None /\ lookedUp[1] # stored[1]

\* C17: the catalog is read-only after load: after any sequence of calls of
\* fuzzy_find, build_units_index, collect_phase_tips,
\* collect_phase_tips_for_unit, strat_items_by_phase and build_phase_board
\* every object of the catalog (the unit list and the unit mapping, the unit
\* records and their tips, the faction helpers, the stratagem list and its
\* records) is as it was right after load.
CatalogReadOnly ==
  heap = loadedHeap

\* collect_phase_tips has returned, after another call, for a catalog with
\* generic reminders and units that have tips, and it made new objects
CatalogReadOnlyWitness ==
  /\ calls = 2
  /\ lastCall # None
  /\ lastCall[1].name = "collect_phase_tips"
  /\ ~lastCall[1].raised
  /\ lastCall[1].fresh > 2
  /\ heap[GetItem(heap, roots.faction_helpers, <<"generic_reminders">>).ref].keys # <<>>
  /\ \E u \in UnitAddrs : heap[GetItem(heap, u, <<"play_tips">>).ref].keys # <<>>

====
